---- MODULE Spec2Model ----
(***************************************************************************)
(* Execution core of the cross-venue arbitrage engine.                     *)
(*                                                                         *)
(*   Spec         the strategy engine (SimpleArbitrage): shouldExecuteTrade *)
(*                and executeTrade of concurrent attempts, with the trade   *)
(*                lock set, the balance reservations of the ExchangeManager *)
(*                and the results its executeTrade hands back.              *)
(*   SpecGateway  ExchangeManager.executeTrade called (and retried) by      *)
(*                external callers with a clientOrderId, with recentOrders. *)
(*                                                                         *)
(* One action is one run of code between two suspension points (awaits).   *)
(* Amounts are integers; percentages are compared by cross-multiplication. *)
(***************************************************************************)
EXTENDS Integers, FiniteSets, Sequences, TLC

\* ------------------------------------------------------------------ bounds
NumTasks == 3       \* concurrent attempts (overlapping ticks / spawned executes)
NumCallers == 2     \* concurrent callers of the gateway's executeTrade
MaxCreateCalls == 3 \* createOrder invocations counted per clientOrderId
MaxNow == 5         \* milliseconds of the rate limiter's clock
MaxIntervals == 2   \* timers of the monitoring loop alive at once
MaxErrorCount == 5  \* errors counted on the venue before one is cleared
MaxReconnects == 7  \* reconnections scheduled in a row
MaxReconnectTimers == 2 \* reconnection timers alive at once
MaxClock == 2       \* the gateway's clock

\* ------------------------------------------------------- program constants
partialFillThreshold == 95
balanceReservePercent == 10
maxOpportunityAge == 5000
maxWaitTime == 60000
maxReconnectAttempts == 5
initialReconnectDelay == 5000
maxReconnectDelay == 300000

\* ------------------------------------------------------------------ inputs
Tasks == 1..NumTasks
Callers == 1..NumCallers
ClientOrderIds == {"c1", "c2"}
Venues == {"A", "B"}
Symbols == {<<"X", "Y">>, <<"Z", "Y">>}     \* <<base, quote>> of "BASE/QUOTE"
Currencies == {"X", "Y", "Z"}
OppTimestamp == {10000}
Nows == {9999, 10000, 15000, 15001}     \* Date.now() when shouldExecuteTrade runs
Amounts == {0, 100}
Profits == {0, 1}
CapChoices == {1, 2}                    \* configured MAX_CONCURRENT_TRADES

\* Free balances the venues report (held fixed, as a venue with no other activity).
venueFree(v, c) ==
    IF v = "A" /\ c = "Y" THEN 150
    ELSE IF v = "B" /\ c \in {"X", "Z"} THEN 100
    ELSE 0

\* What a venue reports as filled for an order of the given amount.
VenueFills(amount) == {0, (amount * 80) \div 100, (amount * 97) \div 100, amount}
VenueStatuses == {"open", "closed", "canceled"}

Opportunities ==
    [symbol : Symbols, buyExchange : Venues, sellExchange : Venues,
     buyPrice : {1}, sellPrice : {2}, amount : Amounts, profitPercent : Profits,
     timestamp : OppTimestamp, buyFee : {0}]

NoOpp ==
    [symbol |-> <<"X", "Y">>, buyExchange |-> "A", sellExchange |-> "A",
     buyPrice |-> 0, sellPrice |-> 0, amount |-> 0, profitPercent |-> 0,
     timestamp |-> 0, buyFee |-> 0]

NoResult == [success |-> FALSE, filled |-> 0]

VARIABLES
    maxConcurrentTrades,  \* CONFIG.general.maxConcurrentTrades
    pc,                   \* where each attempt is suspended
    opp,                  \* the opportunity of each attempt
    lastEvent,            \* the last refusal or release of shouldExecuteTrade
    activeTrades,         \* SimpleArbitrage.activeTrades
    balanceReservations,  \* ExchangeManager.balanceReservations
    buyResult,            \* execution.buyTrade of the attempt
    sellAmount,           \* sellOrder.amount as submitted
    gwpc,                 \* where each caller of the gateway's executeTrade is
    gwcid,                \* the clientOrderId of the caller's order
    recentOrders,         \* ExchangeManager.recentOrders
    createCalls,          \* createOrder invocations per clientOrderId
    venueCreated,         \* orders the venue created per clientOrderId
    gwCalls,              \* createOrder invocations of the caller's current call
    ledgerUp,             \* TradeStatePersistence: initialize() has run
    ledgerState,          \* TradeStatePersistence.state
    disk,                 \* the content of the state file
    wpc,                  \* where each caller of the ledger is suspended
    wdata,                \* the JSON text the caller's forceSave is writing
    wop,                  \* the caller's ledger operation and the transition it made
    ledgerNow,            \* Date.now() as the ledger reads it
    recovery,             \* what recoverState() last returned
    buckets,              \* WebSocketRateLimiter.buckets
    configs,              \* WebSocketRateLimiter.configs
    limiterNow,           \* Date.now() as the rate limiter reads it
    rpc,                  \* where each waitForPermit call is suspended
    rwake,                \* when the caller's sleep ends
    backoffDue,           \* per venue, when the backoffs of its rate limit errors end
    lastPermit,           \* the last permit granted
    depthCall,            \* a call of getExchangeCompatibleLimit and what it returned
    validateCall,         \* a call of validateOpportunity and what it returned
    scanCall,             \* a call of findArbitrageOpportunities and what it returned
    isRunning,            \* BaseStrategy._isRunning
    monitoringInterval,   \* SimpleArbitrage.monitoringInterval holds a timer
    liveIntervals,        \* timers made by setInterval and not cleared
    lpc,                  \* where each caller of start() or stop() is suspended
    onStopWaitTime,       \* onStop's waitTime of the caller
    tickpc,               \* the symbol the monitoring callback is scanning, 0 if none
    lastCall,             \* the last step of start(), stop() or the monitoring loop
    errorCount,           \* ExchangeInstance.errorCount
    status,               \* ExchangeInstance.status
    lastUpdate,           \* ExchangeInstance.lastUpdate
    reconnectTimeouts,    \* the timer held in reconnectTimeouts for the venue, 0 if none
    reconnectAttempts,    \* the venue's count in reconnectAttempts, 0 if none
    timers,               \* reconnection timers waiting or with their callback running
    watchpc,              \* where the watchOrderBook loop of each symbol is
    shutdownpc,           \* how far ExchangeManager.shutdown() has run
    connNow,              \* Date.now() as the gateway reads it
    sinceConnected        \* reconnections scheduled since the venue last connected

svars == <<maxConcurrentTrades, pc, opp, lastEvent, activeTrades,
           balanceReservations, buyResult, sellAmount>>
gvars == <<gwpc, gwcid, recentOrders, createCalls, venueCreated, gwCalls>>
lvars == <<ledgerUp, ledgerState, disk, wpc, wdata, wop, ledgerNow, recovery>>
rvars == <<buckets, configs, limiterNow, rpc, rwake, backoffDue, lastPermit>>
nvars == <<depthCall, validateCall, scanCall>>
bvars == <<isRunning, monitoringInterval, liveIntervals, lpc, onStopWaitTime, tickpc,
           lastCall>>
cvars == <<errorCount, status, lastUpdate, reconnectTimeouts, reconnectAttempts, timers,
           watchpc, shutdownpc, connNow, sinceConnected>>
vars == <<svars, gvars, lvars, rvars, nvars, bvars, cvars>>

\* --------------------------------------------------------------- helpers
\* JavaScript `a || b` on numbers: 0 and undefined are falsy.
OrElse(a, b) == IF a # 0 THEN a ELSE b

RECURSIVE SumAmounts(_)
SumAmounts(S) ==
    IF S = {} THEN 0
    ELSE LET r == CHOOSE x \in S : TRUE IN r.amount + SumAmounts(S \ {r})

tradeKeyOf(o) == <<o.symbol, o.buyExchange, o.sellExchange>>
baseCurrency(o) == o.symbol[1]
quoteCurrency(o) == o.symbol[2]

Max(a, b) == IF a >= b THEN a ELSE b
Min(a, b) == IF a <= b THEN a ELSE b

\* ------------------------------------------------ calculations (pure code)
\* As validateOpportunity, without the guard against future timestamps.
validateOpportunity_noFutureGuard(o, maxAge, now) ==
    LET age == now - o.timestamp IN
    /\ ~(age > maxAge)
    /\ ~(o.profitPercent <= 0)
    /\ ~(o.amount <= 0)
    /\ ~(o.buyPrice <= 0 \/ o.sellPrice <= 0)

validateOpportunity(o, maxAge, now) ==
    LET age == now - o.timestamp IN
    /\ ~(age > maxAge)
    /\ ~(age < 0)
    /\ ~(o.profitPercent <= 0)
    /\ ~(o.amount <= 0)
    /\ ~(o.buyPrice <= 0 \/ o.sellPrice <= 0)

calculateRequiredBalance(o) ==
    [buyExchangeBalance |-> o.amount * o.buyPrice * (1 + o.buyFee),
     sellExchangeBalance |-> o.amount]

\* requiredBalances.buyExchangeBalance + reserveAmount
requiredQuote(o) ==
    LET b == calculateRequiredBalance(o).buyExchangeBalance IN
    b + (b * balanceReservePercent) \div 100

requiredBase(o) == calculateRequiredBalance(o).sellExchangeBalance

\* ------------------------------------------------------- the trade lock set
tryAcquireTradeLock_noCheck(active, key) ==
    [acquired |-> TRUE, active |-> active \cup {key}]

tryAcquireTradeLock(active, key) ==
    IF key \in active
    THEN [acquired |-> FALSE, active |-> active]
    ELSE [acquired |-> TRUE, active |-> active \cup {key}]

releaseTradeLock(active, key) == active \ {key}

capReached_offByOne(active, cap) == Cardinality(active) > cap

capReached(active, cap) == Cardinality(active) >= cap

\* ---------------------------------------- ExchangeManager: reservations
\* As cleanupStaleReservations, but every reservation is evicted, whatever its age.
cleanupStaleReservations_all(res) == {}

cleanupStaleReservations(res) == {r \in res : ~r.stale}

getAvailableBalance(res, free, exchangeId, currency) ==
    LET live == cleanupStaleReservations(res)
        reservedAmount ==
            SumAmounts({r \in live : r.exchange = exchangeId /\ r.currency = currency})
    IN Max(0, free - reservedAmount)

reserveBalance(res, tradeKey, exchangeId, currency, amount) ==
    {r \in res : ~(r.tradeKey = tradeKey /\ r.exchange = exchangeId
                   /\ r.currency = currency)}
    \cup {[tradeKey |-> tradeKey, exchange |-> exchangeId, currency |-> currency,
           amount |-> amount, stale |-> FALSE]}

releaseReservation_quoteOnly(res, tradeKey) ==
    {r \in res : r.tradeKey # tradeKey \/ r.currency # tradeKey[1][2]}

releaseReservation(res, tradeKey) == {r \in res : r.tradeKey # tradeKey}

\* ------------------------------ ExchangeManager.executeTrade: its results
\* createOrder resolved; the venue reported `filled`.
CreateOrderResult(amount, filled) ==
    [success |-> TRUE, filled |-> OrElse(filled, amount)]

\* findRecentOrderByParams matched the venue order vo after a timeout.
RecoveredResult(vo) ==
    [success |-> (vo.status \in {"closed", "open"} \/ vo.filled > 0),
     filled |-> OrElse(vo.filled, 0)]

FailureResult == [success |-> FALSE, filled |-> 0]

VenueOrders(amount) == [filled : VenueFills(amount), status : VenueStatuses]

\* --------------------------------------------- SimpleArbitrage: decisions
\* checkRequiredBalances(opportunity) as shouldExecuteTrade calls it: without a
\* tradeKey, so against the raw free balances.
checkRequiredBalances(o) ==
    /\ ~(venueFree(o.buyExchange, quoteCurrency(o)) < requiredQuote(o))
    /\ venueFree(o.sellExchange, baseCurrency(o)) >= requiredBase(o)

\* verifyBalanceBeforeExecution: available balances net of the live reservations.
verifyBalance(res, o) ==
    /\ ~(getAvailableBalance(res, venueFree(o.buyExchange, quoteCurrency(o)),
                             o.buyExchange, quoteCurrency(o)) < requiredQuote(o))
    /\ ~(getAvailableBalance(res, venueFree(o.sellExchange, baseCurrency(o)),
                             o.sellExchange, baseCurrency(o)) < requiredBase(o))

lockAfterBalanceCheck_keeps(active, key, hasRequiredBalance) == active

lockAfterBalanceCheck(active, key, hasRequiredBalance) ==
    IF hasRequiredBalance THEN active ELSE releaseTradeLock(active, key)

lockAfterPriceValidation_releases(active, key, valid) == releaseTradeLock(active, key)

lockAfterPriceValidation(active, key, valid) ==
    IF valid THEN active ELSE releaseTradeLock(active, key)

buyFailed_ignored(res) == FALSE

buyFailed(res) == ~res.success

actualBuyAmount(o, res) == OrElse(res.filled, o.amount)

\* fillPercent < partialFillThreshold, fillPercent = actualBuyAmount / amount * 100
fillRejected(o, res) ==
    actualBuyAmount(o, res) * 100 < partialFillThreshold * o.amount

\* isPartialFill: fillPercent < 100
isPartialFill(o, res) == actualBuyAmount(o, res) * 100 < 100 * o.amount

sellOrderAmount_requested(o, res) == o.amount

sellOrderAmount(o, res) ==
    IF isPartialFill(o, res) THEN actualBuyAmount(o, res) ELSE o.amount

\* ------------------------------------- TradeStatePersistence: the document
STATE_VERSION == 1
ORPHAN_THRESHOLD_MS == 24 * 60 * 60 * 1000

Writers == {"w1", "w2"}                 \* concurrent callers of the ledger
LedgerKeys == {<<<<"X", "Y">>, "A", "B">>, <<<<"Z", "Y">>, "A", "B">>}
\* The instants at which the ledger's clock is read.
LedgerTimes == {0, ORPHAN_THRESHOLD_MS, ORPHAN_THRESHOLD_MS + 1}

\* state.activeTrades[tradeKey] is undefined.
NoTrade == [status |-> "absent", startedAt |-> 0]

createEmptyState ==
    [version |-> STATE_VERSION, activeTrades |-> [k \in LedgerKeys |-> NoTrade]]

activeKeys(st) == {k \in LedgerKeys : st.activeTrades[k] # NoTrade}

\* JSON.stringify(this.state): the object's own properties, as text.
JSONstringify(st) ==
    [kind |-> "json", version |-> st.version,
     activeTrades |->
        {[tradeKey |-> k, status |-> st.activeTrades[k].status,
          startedAt |-> st.activeTrades[k].startedAt] : k \in activeKeys(st)}]

\* JSON.parse(data) as PersistedState.
JSONparse(data) ==
    [version |-> data.version,
     activeTrades |->
        [k \in LedgerKeys |->
            IF \E e \in data.activeTrades : e.tradeKey = k
            THEN LET e == CHOOSE e \in data.activeTrades : e.tradeKey = k
                 IN [status |-> e.status, startedAt |-> e.startedAt]
            ELSE NoTrade]]

\* readFile rejects with ENOENT: the file does not exist.
NoFile == [kind |-> "ENOENT", version |-> 0, activeTrades |-> {}]
\* The file holds no complete JSON document: JSON.parse throws.
Torn == [kind |-> "torn", version |-> 0, activeTrades |-> {}]

\* Files an earlier run may have left: none, one of another version, one of
\* this version with a trade whose buy was executed.
DiskInputs ==
    {NoFile,
     [kind |-> "json", version |-> 2,
      activeTrades |-> {[tradeKey |-> <<<<"X", "Y">>, "A", "B">>, status |-> "pending",
                         startedAt |-> 0]}],
     [kind |-> "json", version |-> STATE_VERSION,
      activeTrades |-> {[tradeKey |-> <<<<"X", "Y">>, "A", "B">>,
                         status |-> "buy_executed", startedAt |-> 0]}]}

loadState_anyVersion(file) ==
    IF file = NoFile \/ file = Torn THEN createEmptyState ELSE JSONparse(file)

loadState(file) ==
    IF file = NoFile THEN createEmptyState
    ELSE IF file = Torn THEN createEmptyState
    ELSE IF JSONparse(file).version # STATE_VERSION THEN createEmptyState
    ELSE JSONparse(file)

recordTradeStart(st, tradeKey, now) ==
    [st EXCEPT !.activeTrades[tradeKey] = [status |-> "pending", startedAt |-> now]]

recordBuyExecuted(st, tradeKey) ==
    IF st.activeTrades[tradeKey] = NoTrade THEN st
    ELSE [st EXCEPT !.activeTrades[tradeKey].status = "buy_executed"]

recordTradeComplete_keeps(st, tradeKey) == st

recordTradeComplete(st, tradeKey) ==
    [st EXCEPT !.activeTrades[tradeKey] = NoTrade]

acknowledgeOrphanedTrade(st, tradeKey) ==
    [st EXCEPT !.activeTrades[tradeKey] = NoTrade]

detectOrphanedTrades_atThreshold(st, now, thresholdMs) ==
    {k \in activeKeys(st) : now - st.activeTrades[k].startedAt >= thresholdMs}

detectOrphanedTrades(st, now, thresholdMs) ==
    {k \in activeKeys(st) : now - st.activeTrades[k].startedAt > thresholdMs}

recoverState(st, now) ==
    LET orphanedTrades == detectOrphanedTrades(st, now, ORPHAN_THRESHOLD_MS) IN
    [recoveredTrades |-> activeKeys(st) \ orphanedTrades,
     orphanedTrades |-> orphanedTrades]

NoRecovery == [recoveredTrades |-> {}, orphanedTrades |-> {}, ran |-> FALSE]
NoOp == [op |-> "none", tradeKey |-> <<>>, from |-> "none", to |-> "none"]

\* ------------------------------------------ WebSocketRateLimiter: its inputs
RVenues == {"A"}
Waiters == {"r1"}
NoBucket == [tokens |-> 0, lastRefill |-> 0, currentBackoffMs |-> 0,
             backoffUntil |-> 0, set |-> FALSE]
NoConfig == [maxRequests |-> 0, windowMs |-> 0, initialBackoffMs |-> 0,
             maxBackoffMs |-> 0, backoffMultiplier |-> 0]
NoPermit == [venue |-> "none", at |-> 0, by |-> "none", waited |-> "none"]
NoBackoffDue == [ever |-> 0, sinceReset |-> 0]
NoWait == [at |-> "idle", venue |-> "none", waitTime |-> 0, slept |-> "no"]

\* The configurations initialize(exchangeId, customConfig) is given: one whose
\* backoff grows from initialBackoffMs to maxBackoffMs, and one whose
\* initialBackoffMs exceeds maxBackoffMs.
LimiterConfigs ==
    {[maxRequests |-> 2, windowMs |-> 2, initialBackoffMs |-> 1,
      maxBackoffMs |-> 3, backoffMultiplier |-> 2],
     [maxRequests |-> 1, windowMs |-> 2, initialBackoffMs |-> 3,
      maxBackoffMs |-> 1, backoffMultiplier |-> 1]}

\* The backoff of such a configuration never shrinks from one error to the next.
backoffGrows(config) ==
    config.backoffMultiplier >= 1 /\ config.initialBackoffMs <= config.maxBackoffMs

\* Math.floor((elapsed / windowMs) * maxRequests) tokens are added.
refillTokens(bucket, config, now) ==
    LET elapsed == now - bucket.lastRefill
        tokensToAdd == (elapsed * config.maxRequests) \div config.windowMs
    IN IF tokensToAdd > 0
       THEN [bucket EXCEPT !.tokens = Min(config.maxRequests, @ + tokensToAdd),
                           !.lastRefill = now]
       ELSE bucket

\* As canMakeRequest, without the check of the backoff period.
canMakeRequest_ignoresBackoff(bucket, config, now) ==
    IF ~bucket.set THEN [ok |-> TRUE, bucket |-> bucket]
    ELSE LET refilled == refillTokens(bucket, config, now) IN
         [ok |-> refilled.tokens > 0, bucket |-> refilled]

\* canMakeRequest(exchangeId): its result and the bucket it leaves.
canMakeRequest(bucket, config, now) ==
    IF ~bucket.set THEN [ok |-> TRUE, bucket |-> bucket]
    ELSE IF now < bucket.backoffUntil THEN [ok |-> FALSE, bucket |-> bucket]
    ELSE LET refilled == refillTokens(bucket, config, now) IN
         [ok |-> refilled.tokens > 0, bucket |-> refilled]

recordRequest(bucket, config, now) ==
    LET refilled == refillTokens(bucket, config, now) IN
    IF refilled.tokens > 0 THEN [refilled EXCEPT !.tokens = @ - 1] ELSE refilled

\* As recordRateLimitError, without the cap of maxBackoffMs.
recordRateLimitError_uncapped(bucket, config, now) ==
    [bucket EXCEPT !.backoffUntil = now + bucket.currentBackoffMs,
                   !.currentBackoffMs =
                       bucket.currentBackoffMs * config.backoffMultiplier]

recordRateLimitError(bucket, config, now) ==
    [bucket EXCEPT !.backoffUntil = now + bucket.currentBackoffMs,
                   !.currentBackoffMs =
                       Min(config.maxBackoffMs,
                           bucket.currentBackoffMs * config.backoffMultiplier)]

resetBackoff(bucket, config) ==
    [bucket EXCEPT !.currentBackoffMs = config.initialBackoffMs,
                   !.backoffUntil = 0]

\* ------------------------------------ ExchangeManager: order book depth
\* ORDER_BOOK_LIMITS: per exchange, the accepted limits in ascending order and
\* the maximum.
ORDER_BOOK_LIMITS ==
    [kucoin |-> [validLimits |-> <<5, 20, 50, 100>>, maxLimit |-> 100],
     bybit |-> [validLimits |-> <<1, 50, 200, 1000>>, maxLimit |-> 1000],
     binance |-> [validLimits |-> <<5, 10, 20, 50, 100, 500, 1000, 5000>>,
                  maxLimit |-> 5000],
     okx |-> [validLimits |-> <<1, 5, 40, 100, 400>>, maxLimit |-> 400],
     kraken |-> [validLimits |-> <<10, 25, 100, 500, 1000>>, maxLimit |-> 1000]]

\* The exchanges a depth is asked for: those of the table and one without limits.
DepthExchanges == DOMAIN ORDER_BOOK_LIMITS \cup {"gate"}

\* The depths asked for: every accepted limit and its two neighbours.
DepthRequests ==
    UNION {{l - 1, l, l + 1} :
              l \in UNION {{ORDER_BOOK_LIMITS[e].validLimits[i] :
                              i \in DOMAIN ORDER_BOOK_LIMITS[e].validLimits} :
                           e \in DOMAIN ORDER_BOOK_LIMITS}}

\* The loop over validLimits from index i on: the first limit >= requestedLimit,
\* maxLimit when there is none.
RECURSIVE firstLimitFrom(_, _, _, _)
firstLimitFrom(validLimits, i, requestedLimit, maxLimit) ==
    IF i > Len(validLimits) THEN maxLimit
    ELSE IF requestedLimit <= validLimits[i] THEN validLimits[i]
    ELSE firstLimitFrom(validLimits, i + 1, requestedLimit, maxLimit)

\* As getExchangeCompatibleLimit, but a depth above the maximum is passed on.
getExchangeCompatibleLimit_uncapped(exchangeId, requestedLimit) ==
    IF exchangeId \notin DOMAIN ORDER_BOOK_LIMITS
    THEN [limit |-> requestedLimit, warned |-> FALSE]
    ELSE LET exchangeLimits == ORDER_BOOK_LIMITS[exchangeId] IN
         IF requestedLimit > exchangeLimits.maxLimit
         THEN [limit |-> requestedLimit, warned |-> TRUE]
         ELSE [limit |-> firstLimitFrom(exchangeLimits.validLimits, 1,
                                        requestedLimit, exchangeLimits.maxLimit),
               warned |-> FALSE]

\* getExchangeCompatibleLimit: the limit returned and whether a warning was logged.
getExchangeCompatibleLimit(exchangeId, requestedLimit) ==
    IF exchangeId \notin DOMAIN ORDER_BOOK_LIMITS
    THEN [limit |-> requestedLimit, warned |-> FALSE]
    ELSE LET exchangeLimits == ORDER_BOOK_LIMITS[exchangeId] IN
         IF requestedLimit > exchangeLimits.maxLimit
         THEN [limit |-> exchangeLimits.maxLimit, warned |-> TRUE]
         ELSE [limit |-> firstLimitFrom(exchangeLimits.validLimits, 1,
                                        requestedLimit, exchangeLimits.maxLimit),
               warned |-> FALSE]

NoDepthCall ==
    [exchangeId |-> "none", requestedLimit |-> 0, done |-> FALSE, limit |-> 0,
     warned |-> FALSE]

\* ------------------------------------------- validateOpportunity: inputs
\* Opportunities with every field valid or not, the ages -1, 0, 1, 5000 and
\* 5001 of them, and the maxAge values 5000 (the default) and 0.
ValidateOpps ==
    [symbol : {<<"X", "Y">>}, buyExchange : {"A"}, sellExchange : {"B"},
     buyPrice : {0, 1}, sellPrice : {0, 2}, amount : Amounts,
     profitPercent : Profits, timestamp : OppTimestamp, buyFee : {0}]
ValidateMaxAges == {0, 5000}
ValidateInputs ==
    {[opportunity |-> o, maxAge |-> a, now |-> o.timestamp + d] :
        o \in ValidateOpps, a \in ValidateMaxAges, d \in {-1, 0, 1, 5000, 5001}}

NoValidateCall ==
    [opportunity |-> NoOpp, maxAge |-> 0, now |-> 0, done |-> FALSE,
     valid |-> FALSE]

\* ----------------------------------- findArbitrageOpportunities (pure code)
\* Prices are multiples of 100 and fees are in thousandths, so that every
\* quotient below is exact; profitPercent is in thousandths of a percent.
ScanVenues == {"A", "B", "C"}
getFee(exchange) == IF exchange = "A" THEN 1 ELSE IF exchange = "B" THEN 2 ELSE 0

\* Order books <<price, amount>>: a cheap one, a cheap and a dear one deeper than
\* maxAmount, one with no level, one with asks only, one whose levels are empty.
OrderBooks ==
    {[asks |-> <<<<100, 50>>>>, bids |-> <<<<100, 50>>>>],
     [asks |-> <<<<100, 2000>>>>, bids |-> <<<<100, 2000>>>>],
     [asks |-> <<<<200, 2000>>, <<300, 10>>>>, bids |-> <<<<200, 2000>>, <<100, 10>>>>],
     [asks |-> <<>>, bids |-> <<>>],
     [asks |-> <<<<100, 50>>>>, bids |-> <<>>],
     [asks |-> <<<<100, 0>>>>, bids |-> <<<<200, 0>>>>]}

MarketDataItems == [exchange : ScanVenues, symbol : Symbols, orderBook : OrderBooks]

\* What getMarketData can return: at most one item per exchange.
MarketDataInputs ==
    {<<>>}
    \cup {<<a>> : a \in MarketDataItems}
    \cup {pair \in MarketDataItems \X MarketDataItems :
              pair[1].exchange # pair[2].exchange}
    \cup {<<a, b, c>> : a \in {x \in MarketDataItems : x.exchange = "A"},
                        b \in {x \in MarketDataItems : x.exchange = "B"},
                        c \in {x \in MarketDataItems : x.exchange = "C"}}

\* minProfitPercent: 0.5 % (the default), 99.6 % and 100 %.
MinProfitInputs == {500, 99600, 100000}
ScanMaxAmount == 1000

NoLevel == [price |-> 0, amount |-> 0, none |-> TRUE]
getBestAsk(orderBook) ==
    IF Len(orderBook.asks) = 0 THEN NoLevel
    ELSE [price |-> orderBook.asks[1][1], amount |-> orderBook.asks[1][2],
          none |-> FALSE]
getBestBid(orderBook) ==
    IF Len(orderBook.bids) = 0 THEN NoLevel
    ELSE [price |-> orderBook.bids[1][1], amount |-> orderBook.bids[1][2],
          none |-> FALSE]

calculateProfitPercent(buyPrice, sellPrice, buyFee, sellFee) ==
    IF buyPrice <= 0 \/ sellPrice <= 0 THEN 0
    ELSE LET grossProfit == (sellPrice - buyPrice) * 1000
             netProfit == grossProfit - buyPrice * buyFee - sellPrice * sellFee
         IN (netProfit * 100) \div buyPrice

\* As calculateArbitrageOpportunity, without the test of minProfitPercent.
calculateArbitrageOpportunity_noMinProfit(buyExchange, sellExchange, symbol, buyOrderBook, sellOrderBook, minProfitPercent, maxAmount) ==
    LET bestAsk == getBestAsk(buyOrderBook)
        bestBid == getBestBid(sellOrderBook)
        maxTradeableAmount == Min(Min(bestAsk.amount, bestBid.amount), maxAmount)
        profitPercent == calculateProfitPercent(bestAsk.price, bestBid.price,
                                                getFee(buyExchange),
                                                getFee(sellExchange))
    IN IF bestAsk.none \/ bestBid.none \/ bestAsk.price >= bestBid.price THEN <<>>
       ELSE IF maxTradeableAmount <= 0 THEN <<>>
       ELSE <<[symbol |-> symbol, buyExchange |-> buyExchange,
               sellExchange |-> sellExchange, buyPrice |-> bestAsk.price,
               sellPrice |-> bestBid.price, amount |-> maxTradeableAmount,
               profitPercent |-> profitPercent]>>

\* calculateArbitrageOpportunity: <<>> for null, else the opportunity (its
\* profitAmount, timestamp and fees are left out).
calculateArbitrageOpportunity(buyExchange, sellExchange, symbol, buyOrderBook, sellOrderBook, minProfitPercent, maxAmount) ==
    LET bestAsk == getBestAsk(buyOrderBook)
        bestBid == getBestBid(sellOrderBook)
        maxTradeableAmount == Min(Min(bestAsk.amount, bestBid.amount), maxAmount)
        profitPercent == calculateProfitPercent(bestAsk.price, bestBid.price,
                                                getFee(buyExchange),
                                                getFee(sellExchange))
    IN IF bestAsk.none \/ bestBid.none \/ bestAsk.price >= bestBid.price THEN <<>>
       ELSE IF maxTradeableAmount <= 0 THEN <<>>
       ELSE IF profitPercent < minProfitPercent THEN <<>>
       ELSE <<[symbol |-> symbol, buyExchange |-> buyExchange,
               sellExchange |-> sellExchange, buyPrice |-> bestAsk.price,
               sellPrice |-> bestBid.price, amount |-> maxTradeableAmount,
               profitPercent |-> profitPercent]>>

\* The two loops of findArbitrageOpportunities from the pair (i, j) on.
RECURSIVE comparePairsFrom(_, _, _, _, _)
comparePairsFrom(marketData, i, j, minProfitPercent, maxAmount) ==
    IF i > Len(marketData) THEN <<>>
    ELSE IF j > Len(marketData)
    THEN comparePairsFrom(marketData, i + 1, i + 2, minProfitPercent, maxAmount)
    ELSE LET market1 == marketData[i]
             market2 == marketData[j]
             rest == comparePairsFrom(marketData, i, j + 1, minProfitPercent,
                                      maxAmount)
         IN IF market1.symbol # market2.symbol THEN rest
            ELSE calculateArbitrageOpportunity(
                     market1.exchange, market2.exchange, market1.symbol,
                     market1.orderBook, market2.orderBook, minProfitPercent,
                     maxAmount)
                 \o calculateArbitrageOpportunity(
                     market2.exchange, market1.exchange, market2.symbol,
                     market2.orderBook, market1.orderBook, minProfitPercent,
                     maxAmount)
                 \o rest

\* opportunities.sort((a, b) => b.profitPercent - a.profitPercent), which is
\* stable: o goes behind every opportunity of at least its profit.
RECURSIVE insertByProfit(_, _)
insertByProfit(sorted, o) ==
    IF sorted = <<>> THEN <<o>>
    ELSE IF Head(sorted).profitPercent >= o.profitPercent
    THEN <<Head(sorted)>> \o insertByProfit(Tail(sorted), o)
    ELSE <<o>> \o sorted

RECURSIVE sortByProfit(_)
sortByProfit(opportunities) ==
    IF opportunities = <<>> THEN <<>>
    ELSE LET n == Len(opportunities) IN
         insertByProfit(sortByProfit(SubSeq(opportunities, 1, n - 1)),
                        opportunities[n])

findArbitrageOpportunities(marketData, minProfitPercent, maxAmount) ==
    IF Len(marketData) < 2 THEN <<>>
    ELSE sortByProfit(comparePairsFrom(marketData, 1, 2, minProfitPercent,
                                       maxAmount))

NoScanCall ==
    [marketData |-> <<>>, minProfitPercent |-> 0, maxAmount |-> 0,
     done |-> FALSE, opportunities |-> <<>>]

\* ------------------------------------------------------------- initial state
\* The symbols whose order book is watched on the venue.
WatchSymbols == {<<"X", "Y">>}

\* The code that calls start() and the code that calls stop() on the strategy;
\* each awaits its call before the next one.
Starters == {"k1"}
Stoppers == {"k2"}
LifeCallers == Starters \cup Stoppers
NoCall == [op |-> "none", outcome |-> "none", sink |-> "none", waited |-> 0]

NoKey == <<>>
NoEvent == [kind |-> "none", key |-> NoKey]

\* The scan's candidates <<opportunity, Date.now()>>: every well-formed
\* opportunity between two venues while fresh, one of them at every age, and two
\* malformed ones.
GoodOpps ==
    {o \in Opportunities :
        o.buyExchange # o.sellExchange /\ o.amount > 0 /\ o.profitPercent > 0}
OnXYAB(o) == o.symbol = <<"X", "Y">> /\ o.buyExchange = "A" /\ o.sellExchange = "B"
BadOpps == {o \in Opportunities : OnXYAB(o) /\ (o.amount = 0) # (o.profitPercent = 0)}
ScanInputs ==
    (GoodOpps \X {10000})
    \cup ({o \in GoodOpps : OnXYAB(o)} \X Nows)
    \cup (BadOpps \X {10000})

InitStrategy ==
    /\ maxConcurrentTrades \in CapChoices
    /\ pc = [p \in Tasks |-> "idle"]
    /\ opp = [p \in Tasks |-> NoOpp]
    /\ lastEvent = NoEvent
    /\ activeTrades = {}
    /\ balanceReservations = {}
    /\ buyResult = [p \in Tasks |-> NoResult]
    /\ sellAmount = [p \in Tasks |-> 0]

InitGateway ==
    /\ gwpc = [c \in Callers |-> "idle"]
    /\ gwcid = [c \in Callers |-> "none"]
    /\ recentOrders = {}
    /\ createCalls = [id \in ClientOrderIds |-> 0]
    /\ venueCreated = [id \in ClientOrderIds |-> 0]
    /\ gwCalls = [c \in Callers |-> 0]

\* new TradeStatePersistence(), before initialize(); `file` is what is on disk.
InitLedgerOn(file) ==
    /\ ledgerUp = FALSE
    /\ ledgerState = createEmptyState
    /\ disk = file
    /\ wpc = [w \in Writers |-> "idle"]
    /\ wdata = [w \in Writers |-> NoFile]
    /\ wop = [w \in Writers |-> NoOp]
    /\ ledgerNow = 0
    /\ recovery = NoRecovery

\* new WebSocketRateLimiter(), before initialize(exchangeId).
InitLimiter ==
    /\ buckets = [v \in RVenues |-> NoBucket]
    /\ configs = [v \in RVenues |-> NoConfig]
    /\ limiterNow = 0
    /\ rpc = [r \in Waiters |-> NoWait]
    /\ rwake = [r \in Waiters |-> 0]
    /\ backoffDue = [v \in RVenues |-> NoBackoffDue]
    /\ lastPermit = NoPermit

\* No call of a helper function is under way.
InitCalls ==
    /\ depthCall = NoDepthCall
    /\ validateCall = NoValidateCall
    /\ scanCall = NoScanCall

\* A SimpleArbitrage strategy as constructed: not started, no timer.
InitLifecycle ==
    /\ isRunning = FALSE
    /\ monitoringInterval = FALSE
    /\ liveIntervals = 0
    /\ lpc = [k \in LifeCallers |-> "idle"]
    /\ onStopWaitTime = [k \in LifeCallers |-> 0]
    /\ tickpc = 0
    /\ lastCall = NoCall

\* The venue's ExchangeInstance after initialize(): connected, no subscription.
InitConnection ==
    /\ errorCount = 0
    /\ status = "connected"
    /\ lastUpdate = 0
    /\ reconnectTimeouts = 0
    /\ reconnectAttempts = 0
    /\ timers = {}
    /\ watchpc = [s \in WatchSymbols |-> "none"]
    /\ shutdownpc = "running"
    /\ connNow = 1
    /\ sinceConnected = 0

Init ==
    /\ InitStrategy /\ InitGateway /\ InitLedgerOn(NoFile) /\ InitLimiter
    /\ InitCalls /\ InitLifecycle /\ InitConnection

\* The attempt is over: its task is free for the next candidate.
Return(p, kind, key) ==
    /\ pc' = [pc EXCEPT ![p] = "idle"]
    /\ opp' = [opp EXCEPT ![p] = NoOpp]
    /\ buyResult' = [buyResult EXCEPT ![p] = NoResult]
    /\ sellAmount' = [sellAmount EXCEPT ![p] = 0]
    /\ lastEvent' = [kind |-> kind, key |-> key]

\* ------------------------------------------------------ shouldExecuteTrade
\* From the call to the first await: cap, validateOpportunity, lock.
ShouldExecuteStart(p, o, now) ==
    /\ pc[p] = "idle"
    /\ UNCHANGED <<maxConcurrentTrades, balanceReservations, gvars, nvars, cvars, bvars, lvars, rvars>>
    /\ IF capReached(activeTrades, maxConcurrentTrades)
       THEN /\ Return(p, "capped", NoKey)
            /\ UNCHANGED activeTrades
       ELSE IF ~validateOpportunity(o, maxOpportunityAge, now)
       THEN /\ Return(p, "invalid", NoKey)
            /\ UNCHANGED activeTrades
       ELSE LET lock == tryAcquireTradeLock(activeTrades, tradeKeyOf(o)) IN
            /\ activeTrades' = lock.active
            /\ IF lock.acquired
               THEN /\ pc' = [pc EXCEPT ![p] = "checkBalances"]
                    /\ opp' = [opp EXCEPT ![p] = o]
                    /\ UNCHANGED <<lastEvent, buyResult, sellAmount>>
               ELSE Return(p, "blocked", tradeKeyOf(o))

\* checkRequiredBalances resolved.
CheckBalances(p) ==
    /\ pc[p] = "checkBalances"
    /\ LET ok == checkRequiredBalances(opp[p]) IN
       /\ activeTrades' = lockAfterBalanceCheck(activeTrades, tradeKeyOf(opp[p]), ok)
       /\ IF ok
          THEN /\ pc' = [pc EXCEPT ![p] = "validatePrices"]
               /\ UNCHANGED <<opp, lastEvent, buyResult, sellAmount>>
          ELSE Return(p, "released", tradeKeyOf(opp[p]))
    /\ UNCHANGED <<maxConcurrentTrades, balanceReservations, gvars, nvars, cvars, bvars, lvars, rvars>>

\* getBalance rejected (or anything in checkRequiredBalances threw).
CheckBalancesThrows(p) ==
    /\ pc[p] = "checkBalances"
    /\ activeTrades' = lockAfterBalanceCheck(activeTrades, tradeKeyOf(opp[p]), FALSE)
    /\ Return(p, "released", tradeKeyOf(opp[p]))
    /\ UNCHANGED <<maxConcurrentTrades, balanceReservations, gvars, nvars, cvars, bvars, lvars, rvars>>

\* validateCurrentPrices resolved; the fresh books decide `valid`.  On true the
\* scan calls executeTrade, which runs up to the balance fetches of
\* verifyBalanceBeforeExecution.
ValidatePrices(p, valid) ==
    /\ pc[p] = "validatePrices"
    /\ activeTrades' = lockAfterPriceValidation(activeTrades, tradeKeyOf(opp[p]), valid)
    /\ IF valid
       THEN /\ pc' = [pc EXCEPT ![p] = "verifyBalance"]
            /\ UNCHANGED <<opp, lastEvent, buyResult, sellAmount>>
       ELSE Return(p, "released", tradeKeyOf(opp[p]))
    /\ UNCHANGED <<maxConcurrentTrades, balanceReservations, gvars, nvars, cvars, bvars, lvars, rvars>>

\* ------------------------------------------------------------ executeTrade
SellStates == {"sell", "sellRecover"}
BuyStates == {"buy", "buyRecover"}
ExecuteStates == {"verifyBalance", "reserve"} \cup BuyStates \cup SellStates
LockStates == {"checkBalances", "validatePrices"} \cup ExecuteStates

\* The finally block: releaseReservation(tradeKey), activeTrades.delete(tradeKey),
\* recordExecution(execution).
FinallyAs(p, res, kind) ==
    /\ balanceReservations' = releaseReservation(res, tradeKeyOf(opp[p]))
    /\ activeTrades' = activeTrades \ {tradeKeyOf(opp[p])}
    /\ Return(p, kind, tradeKeyOf(opp[p]))

Finally(p, res, success) == FinallyAs(p, res, IF success THEN "execOk" ELSE "execFailed")

\* The balance fetches of verifyBalanceBeforeExecution resolved and the check ran.
VerifyBalance(p) ==
    /\ pc[p] = "verifyBalance"
    /\ LET swept == cleanupStaleReservations(balanceReservations) IN
       IF verifyBalance(balanceReservations, opp[p])
       THEN /\ pc' = [pc EXCEPT ![p] = "reserve"]
            /\ balanceReservations' = swept
            /\ UNCHANGED <<opp, lastEvent, buyResult, sellAmount, activeTrades>>
       ELSE Finally(p, swept, FALSE)
    /\ UNCHANGED <<maxConcurrentTrades, gvars, nvars, cvars, bvars, lvars, rvars>>

\* A balance fetch rejected: verifyBalanceBeforeExecution returns null.
VerifyBalanceThrows(p) ==
    /\ pc[p] = "verifyBalance"
    /\ Finally(p, balanceReservations, FALSE)
    /\ UNCHANGED <<maxConcurrentTrades, gvars, nvars, cvars, bvars, lvars, rvars>>

\* executeTrade resumes with balanceInfo: both reservations, then the buy order
\* goes to the gateway, whose executeTrade calls createOrder.
ReserveAndSubmitBuy(p) ==
    /\ pc[p] = "reserve"
    /\ LET o == opp[p]
           r1 == reserveBalance(balanceReservations, tradeKeyOf(o), o.buyExchange,
                                quoteCurrency(o), requiredQuote(o))
       IN balanceReservations' =
              reserveBalance(r1, tradeKeyOf(o), o.sellExchange, baseCurrency(o),
                             requiredBase(o))
    /\ pc' = [pc EXCEPT ![p] = "buy"]
    /\ UNCHANGED <<maxConcurrentTrades, opp, lastEvent, activeTrades,
                   buyResult, sellAmount, gvars, nvars, cvars, bvars, lvars, rvars>>

\* The gateway returned buyResult: success and fill checks, then the sell order.
AfterBuy(p, res) ==
    IF buyFailed(res) \/ fillRejected(opp[p], res)
    THEN Finally(p, balanceReservations, FALSE)
    ELSE /\ pc' = [pc EXCEPT ![p] = "sell"]
         /\ buyResult' = [buyResult EXCEPT ![p] = res]
         /\ sellAmount' = [sellAmount EXCEPT ![p] = sellOrderAmount(opp[p], res)]
         /\ UNCHANGED <<opp, lastEvent, activeTrades, balanceReservations>>

\* The gateway returned sellResult.
AfterSell(p, res) == Finally(p, balanceReservations, res.success)

LegReturns(p, res) ==
    /\ IF pc[p] \in BuyStates THEN AfterBuy(p, res) ELSE AfterSell(p, res)
    /\ UNCHANGED <<maxConcurrentTrades, gvars, nvars, cvars, bvars, lvars, rvars>>

orderAmount(p) == IF pc[p] \in BuyStates THEN opp[p].amount ELSE sellAmount[p]

\* createOrder resolved with the venue's report.
CreateOrderReturns(p, filled) ==
    /\ pc[p] \in {"buy", "sell"}
    /\ filled \in VenueFills(orderAmount(p))
    /\ LegReturns(p, CreateOrderResult(orderAmount(p), filled))

\* createOrder threw an error that is not a timeout.
CreateOrderRejected(p) ==
    /\ pc[p] \in {"buy", "sell"}
    /\ LegReturns(p, FailureResult)

\* createOrder threw a timeout: the gateway sleeps 2 s and fetches recent orders.
CreateOrderTimesOut(p) ==
    /\ pc[p] \in {"buy", "sell"}
    /\ pc' = [pc EXCEPT ![p] = IF pc[p] = "buy" THEN "buyRecover" ELSE "sellRecover"]
    /\ UNCHANGED <<maxConcurrentTrades, opp, lastEvent, activeTrades,
                   balanceReservations, buyResult, sellAmount, gvars, nvars, cvars, bvars, lvars, rvars>>

\* findRecentOrderByParams matched a recent order of that side and amount.
RecoveryFinds(p, vo) ==
    /\ pc[p] \in {"buyRecover", "sellRecover"}
    /\ vo \in VenueOrders(orderAmount(p))
    /\ LegReturns(p, RecoveredResult(vo))

RecoveryFindsNothing(p) ==
    /\ pc[p] \in {"buyRecover", "sellRecover"}
    /\ LegReturns(p, FailureResult)

\* withTimeout rejected: the order timeout expired while the gateway's
\* executeTrade was still pending (Promise.race leaves it running), or the
\* gateway call itself rejected. The catch block, then finally.
OrderTimeout(p) ==
    /\ pc[p] \in BuyStates \cup SellStates
    /\ \E expired \in BOOLEAN :
          FinallyAs(p, balanceReservations, IF expired THEN "execTimedOut" ELSE "execFailed")
    /\ UNCHANGED <<maxConcurrentTrades, gvars, nvars, cvars, bvars, lvars, rvars>>

\* Time passes: the reservations of one trade become older than reservationTimeout.
ReservationsExpire(k) ==
    /\ \E r \in balanceReservations : r.tradeKey = k /\ ~r.stale
    /\ balanceReservations' =
           {IF r.tradeKey = k THEN [r EXCEPT !.stale = TRUE] ELSE r :
               r \in balanceReservations}
    /\ UNCHANGED <<maxConcurrentTrades, pc, opp, lastEvent, activeTrades,
                   buyResult, sellAmount, gvars, nvars, cvars, bvars, lvars, rvars>>

TradeKeys == {tradeKeyOf(o) : o \in GoodOpps}
FillInputs == UNION {VenueFills(a) : a \in {100, 97}}
VenueOrderInputs == [filled : FillInputs, status : VenueStatuses]

Next ==
    \/ \E p \in Tasks, i \in ScanInputs : ShouldExecuteStart(p, i[1], i[2])
    \/ \E p \in Tasks : CheckBalances(p)
    \/ \E p \in Tasks : CheckBalancesThrows(p)
    \/ \E p \in Tasks, valid \in BOOLEAN : ValidatePrices(p, valid)
    \/ \E p \in Tasks : VerifyBalance(p)
    \/ \E p \in Tasks : VerifyBalanceThrows(p)
    \/ \E p \in Tasks : ReserveAndSubmitBuy(p)
    \/ \E p \in Tasks, f \in FillInputs : CreateOrderReturns(p, f)
    \/ \E p \in Tasks : CreateOrderRejected(p)
    \/ \E p \in Tasks : CreateOrderTimesOut(p)
    \/ \E p \in Tasks, vo \in VenueOrderInputs : RecoveryFinds(p, vo)
    \/ \E p \in Tasks : RecoveryFindsNothing(p)
    \/ \E p \in Tasks : OrderTimeout(p)
    \/ \E k \in TradeKeys : ReservationsExpire(k)

Spec == Init /\ [][Next]_vars

\* The await an attempt is suspended at settles: the call returned, threw or
\* timed out.
AwaitSettles(p) ==
    \/ CheckBalances(p)
    \/ CheckBalancesThrows(p)
    \/ \E valid \in BOOLEAN : ValidatePrices(p, valid)
    \/ VerifyBalance(p)
    \/ VerifyBalanceThrows(p)
    \/ ReserveAndSubmitBuy(p)
    \/ \E f \in FillInputs : CreateOrderReturns(p, f)
    \/ CreateOrderRejected(p)
    \/ CreateOrderTimesOut(p)
    \/ \E vo \in VenueOrderInputs : RecoveryFinds(p, vo)
    \/ RecoveryFindsNothing(p)
    \/ OrderTimeout(p)

\* Two attempts at a time, the second of which may find the key locked or the
\* cap reached by the first.
PairOfTasks == {1, 2}

NextPair ==
    \/ \E p \in PairOfTasks, i \in ScanInputs : ShouldExecuteStart(p, i[1], i[2])
    \/ \E p \in PairOfTasks : AwaitSettles(p)
    \/ \E k \in TradeKeys : ReservationsExpire(k)

\* Every call an attempt awaits eventually returns, throws or times out.
SpecFair ==
    Init /\ [][NextPair]_vars /\ \A p \in PairOfTasks : WF_vars(AwaitSettles(p))

\* ------------------------------------- ExchangeManager.executeTrade, retried
cleanupRecentOrders(recent) == {e \in recent : ~e.stale}

\* this.recentOrders.set(clientOrderId, ...); `via` remembers which branch of
\* executeTrade made the entry.
recentOrdersSet(recent, id, via) ==
    {e \in recent : e.cid # id} \cup {[cid |-> id, stale |-> FALSE, via |-> via]}

\* executeTrade returns its TradeResult to the caller.
GwReturn(c) ==
    /\ gwpc' = [gwpc EXCEPT ![c] = "idle"]
    /\ gwcid' = [gwcid EXCEPT ![c] = "none"]
    /\ gwCalls' = [gwCalls EXCEPT ![c] = 0]

\* As InvokeCreateOrder, but a permit of the limiter is taken for the venue
\* before createOrder is invoked.
InvokeCreateOrder_acquires(c, id) ==
    /\ createCalls[id] < MaxCreateCalls
    /\ createCalls' = [createCalls EXCEPT ![id] = @ + 1]
    /\ gwCalls' = [gwCalls EXCEPT ![c] = @ + 1]
    /\ gwpc' = [gwpc EXCEPT ![c] = "creating"]
    /\ lastPermit' = [venue |-> CHOOSE v \in RVenues : TRUE, at |-> limiterNow,
                      by |-> "waitForPermit", waited |-> "no"]
    /\ UNCHANGED <<buckets, configs, limiterNow, rpc, rwake, backoffDue>>

\* instance.exchange.createOrder is invoked; executeTrade makes no call to the
\* rateLimiter on the way (the driver is built with enableRateLimit: true).
InvokeCreateOrder(c, id) ==
    /\ createCalls[id] < MaxCreateCalls
    /\ createCalls' = [createCalls EXCEPT ![id] = @ + 1]
    /\ gwCalls' = [gwCalls EXCEPT ![c] = @ + 1]
    /\ gwpc' = [gwpc EXCEPT ![c] = "creating"]
    /\ UNCHANGED rvars

\* executeTrade(order) up to its first await: the sweep of recentOrders, the
\* lookup of the clientOrderId, then fetchOrder or createOrder.
GwExecuteTrade(c, id) ==
    /\ gwpc[c] = "idle"
    /\ gwcid' = [gwcid EXCEPT ![c] = id]
    /\ recentOrders' = cleanupRecentOrders(recentOrders)
    /\ IF \E e \in cleanupRecentOrders(recentOrders) : e.cid = id
       THEN /\ gwpc' = [gwpc EXCEPT ![c] = "fetchExisting"]
            /\ UNCHANGED <<createCalls, gwCalls, rvars>>
       ELSE InvokeCreateOrder(c, id)
    /\ UNCHANGED <<venueCreated, svars, nvars, cvars, bvars, lvars>>

\* fetchOrder returned the order: the cached result is returned.
GwFetchOrderFound(c) ==
    /\ gwpc[c] = "fetchExisting"
    /\ GwReturn(c)
    /\ UNCHANGED <<recentOrders, createCalls, venueCreated, svars, nvars, cvars, bvars, lvars, rvars>>

\* fetchOrder returned null or threw: execution falls through to createOrder.
GwFetchOrderFails(c) ==
    /\ gwpc[c] = "fetchExisting"
    /\ InvokeCreateOrder(c, gwcid[c])
    /\ UNCHANGED <<gwcid, recentOrders, venueCreated, svars, nvars, cvars, bvars, lvars>>

\* createOrder resolved: the order exists at the venue and is tracked.
GwCreateOrderReturns(c) ==
    /\ gwpc[c] = "creating"
    /\ venueCreated' = [venueCreated EXCEPT ![gwcid[c]] = @ + 1]
    /\ recentOrders' = recentOrdersSet(recentOrders, gwcid[c], "createOrder")
    /\ GwReturn(c)
    /\ UNCHANGED <<createCalls, svars, nvars, cvars, bvars, lvars, rvars>>

\* createOrder threw an error that is not a timeout: failure result.
GwCreateOrderRejected(c) ==
    /\ gwpc[c] = "creating"
    /\ GwReturn(c)
    /\ UNCHANGED <<recentOrders, createCalls, venueCreated, svars, nvars, cvars, bvars, lvars, rvars>>

\* createOrder threw a timeout; the venue may have placed the order all the same.
GwCreateOrderTimesOut(c, placed) ==
    /\ gwpc[c] = "creating"
    /\ venueCreated' = [venueCreated EXCEPT ![gwcid[c]] = IF placed THEN @ + 1 ELSE @]
    /\ gwpc' = [gwpc EXCEPT ![c] = "recovering"]
    /\ UNCHANGED <<gwcid, recentOrders, createCalls, gwCalls, svars, nvars, cvars, bvars, lvars, rvars>>

\* findRecentOrderByParams matched an order: it is tracked and returned. The
\* requests of the model are for one venue, instrument, side and amount, so
\* the order any of them placed matches; the clientOrderId is not compared.
GwRecoveryFinds(c) ==
    /\ gwpc[c] = "recovering"
    /\ \E id \in ClientOrderIds : venueCreated[id] > 0
    /\ recentOrders' = recentOrdersSet(recentOrders, gwcid[c], "recovery")
    /\ GwReturn(c)
    /\ UNCHANGED <<createCalls, venueCreated, svars, nvars, cvars, bvars, lvars, rvars>>

\* As GwRecoveryFindsNothing, but createOrder is tried again before giving up.
GwRecoveryFindsNothing_retries(c) ==
    /\ gwpc[c] = "recovering"
    /\ InvokeCreateOrder(c, gwcid[c])
    /\ UNCHANGED <<gwcid, recentOrders, venueCreated, svars, nvars, cvars, bvars, lvars>>

\* findRecentOrderByParams returned null: failure result.
GwRecoveryFindsNothing(c) ==
    /\ gwpc[c] = "recovering"
    /\ GwReturn(c)
    /\ UNCHANGED <<recentOrders, createCalls, venueCreated, svars, nvars, cvars, bvars, lvars, rvars>>

\* Time passes: an entry of recentOrders becomes older than recentOrderTTL.
GwRecentOrderAges(id) ==
    /\ \E e \in recentOrders : e.cid = id /\ ~e.stale
    /\ recentOrders' =
           {IF e.cid = id THEN [e EXCEPT !.stale = TRUE] ELSE e : e \in recentOrders}
    /\ UNCHANGED <<gwpc, gwcid, createCalls, venueCreated, gwCalls, svars, nvars, cvars, bvars, lvars,
                   rvars>>

NextGateway ==
    \/ \E c \in Callers, id \in ClientOrderIds : GwExecuteTrade(c, id)
    \/ \E c \in Callers : GwFetchOrderFound(c)
    \/ \E c \in Callers : GwFetchOrderFails(c)
    \/ \E c \in Callers : GwCreateOrderReturns(c)
    \/ \E c \in Callers : GwCreateOrderRejected(c)
    \/ \E c \in Callers, placed \in BOOLEAN : GwCreateOrderTimesOut(c, placed)
    \/ \E c \in Callers : GwRecoveryFinds(c)
    \/ \E c \in Callers : GwRecoveryFindsNothing(c)
    \/ \E id \in ClientOrderIds : GwRecentOrderAges(id)

SpecGateway == Init /\ [][NextGateway]_vars

\* ------------------------------------------------- TradeStatePersistence
\* A caller at rest: it has not called yet, or its last operation found no trade
\* ("skipped"), resolved after its save ("saved"), or rejected ("threw").
LedgerResting == {"idle", "skipped", "saved", "threw"}
WriteStates == {"writeFile", "writing"}

statusOf(st, tradeKey) ==
    IF st.activeTrades[tradeKey] = NoTrade THEN "none"
    ELSE st.activeTrades[tradeKey].status

\* The mutation is made; forceSave() stringifies the state and calls writeFile.
forceSave(w, st, op) ==
    /\ ledgerState' = st
    /\ wdata' = [wdata EXCEPT ![w] = JSONstringify(st)]
    /\ wop' = [wop EXCEPT ![w] = op]
    /\ wpc' = [wpc EXCEPT ![w] = "writeFile"]
    /\ recovery' = NoRecovery
    /\ UNCHANGED <<ledgerUp, disk, ledgerNow>>

\* The trade is not in activeTrades: the operation warns and returns.
ledgerNoTrade(w) ==
    /\ wpc' = [wpc EXCEPT ![w] = "skipped"]
    /\ recovery' = NoRecovery
    /\ UNCHANGED <<ledgerUp, ledgerState, disk, wdata, wop, ledgerNow>>

\* The operation of caller w is over with the given outcome.
ledgerReturn(w, outcome) ==
    /\ wpc' = [wpc EXCEPT ![w] = outcome]
    /\ wdata' = [wdata EXCEPT ![w] = NoFile]
    /\ wop' = [wop EXCEPT ![w] = NoOp]
    /\ recovery' = NoRecovery

RecordTradeStart(w, k) ==
    /\ ledgerUp /\ wpc[w] \in LedgerResting
    /\ forceSave(w, recordTradeStart(ledgerState, k, ledgerNow),
                 [op |-> "start", tradeKey |-> k, from |-> statusOf(ledgerState, k),
                  to |-> "pending"])
    /\ UNCHANGED <<svars, gvars, nvars, cvars, bvars, rvars>>

RecordBuyExecuted(w, k) ==
    /\ ledgerUp /\ wpc[w] \in LedgerResting
    /\ IF ledgerState.activeTrades[k] = NoTrade
       THEN ledgerNoTrade(w)
       ELSE forceSave(w, recordBuyExecuted(ledgerState, k),
                      [op |-> "buyExecuted", tradeKey |-> k,
                       from |-> statusOf(ledgerState, k), to |-> "buy_executed"])
    /\ UNCHANGED <<svars, gvars, nvars, cvars, bvars, rvars>>

RecordTradeComplete(w, k, success) ==
    /\ ledgerUp /\ wpc[w] \in LedgerResting
    /\ IF ledgerState.activeTrades[k] = NoTrade
       THEN ledgerNoTrade(w)
       ELSE forceSave(w, recordTradeComplete(ledgerState, k),
                      [op |-> "complete", tradeKey |-> k,
                       from |-> statusOf(ledgerState, k),
                       to |-> IF success THEN "completed" ELSE "failed"])
    /\ UNCHANGED <<svars, gvars, nvars, cvars, bvars, rvars>>

AcknowledgeOrphanedTrade(w, k) ==
    /\ ledgerUp /\ wpc[w] \in LedgerResting
    /\ IF ledgerState.activeTrades[k] = NoTrade
       THEN ledgerNoTrade(w)
       ELSE forceSave(w, acknowledgeOrphanedTrade(ledgerState, k),
                      [op |-> "acknowledge", tradeKey |-> k,
                       from |-> statusOf(ledgerState, k), to |-> "none"])
    /\ UNCHANGED <<svars, gvars, nvars, cvars, bvars, rvars>>

\* clearState(): the state is replaced by an empty one and saved.
ClearState(w) ==
    /\ ledgerUp /\ wpc[w] \in LedgerResting
    /\ forceSave(w, createEmptyState, [NoOp EXCEPT !.op = "clear"])
    /\ UNCHANGED <<svars, gvars, nvars, cvars, bvars, rvars>>

\* fs.promises.writeFile opened the file for writing: it is truncated.
WriteOpens(w) ==
    /\ wpc[w] = "writeFile"
    /\ disk' = Torn
    /\ wpc' = [wpc EXCEPT ![w] = "writing"]
    /\ recovery' = NoRecovery
    /\ UNCHANGED <<ledgerUp, ledgerState, wdata, wop, ledgerNow>>
    /\ UNCHANGED <<svars, gvars, nvars, cvars, bvars, rvars>>

\* writeFile resolved.  While another writeFile has the file open, what the two
\* leave behind may be the text of neither (mixed).
WriteCompletes(w, mixed) ==
    /\ wpc[w] = "writing"
    /\ mixed => \E o \in Writers \ {w} : wpc[o] = "writing"
    /\ disk' = IF mixed THEN Torn ELSE wdata[w]
    /\ ledgerReturn(w, "saved")
    /\ UNCHANGED <<ledgerUp, ledgerState, ledgerNow>>
    /\ UNCHANGED <<svars, gvars, nvars, cvars, bvars, rvars>>

\* writeFile rejected: forceSave logs and rethrows, the operation rejects.
WriteFails(w) ==
    /\ wpc[w] \in WriteStates
    /\ ledgerReturn(w, "threw")
    /\ UNCHANGED <<ledgerUp, ledgerState, disk, ledgerNow>>
    /\ UNCHANGED <<svars, gvars, nvars, cvars, bvars, rvars>>

\* recoverState(): `recovery` is what the call returns.
RecoverState ==
    /\ ledgerUp
    /\ LET returned == recoverState(ledgerState, ledgerNow) IN
       recovery' = [recoveredTrades |-> returned.recoveredTrades,
                    orphanedTrades |-> returned.orphanedTrades, ran |-> TRUE]
    /\ UNCHANGED <<ledgerUp, ledgerState, disk, wpc, wdata, wop, ledgerNow>>
    /\ UNCHANGED <<svars, gvars, nvars, cvars, bvars, rvars>>

\* The process memory is gone: a new TradeStatePersistence is constructed.
ledgerConstructed ==
    /\ wpc' = [w \in Writers |-> "idle"]
    /\ wdata' = [w \in Writers |-> NoFile]
    /\ wop' = [w \in Writers |-> NoOp]
    /\ recovery' = NoRecovery

\* The process dies at any point; the file stays as it is.
LedgerCrash ==
    /\ ledgerUp
    /\ ledgerUp' = FALSE
    /\ ledgerState' = createEmptyState
    /\ ledgerConstructed
    /\ UNCHANGED <<disk, ledgerNow>>
    /\ UNCHANGED <<svars, gvars, nvars, cvars, bvars, rvars>>

\* initialize(): ensureDataDirectory, loadState.
LedgerInitialize ==
    /\ ~ledgerUp
    /\ ledgerUp' = TRUE
    /\ ledgerState' = loadState(disk)
    /\ recovery' = NoRecovery
    /\ UNCHANGED <<disk, wpc, wdata, wop, ledgerNow>>
    /\ UNCHANGED <<svars, gvars, nvars, cvars, bvars, rvars>>

\* The process is stopped with no save in flight and started again: a new
\* TradeStatePersistence, initialize().
LedgerRestart ==
    /\ ledgerUp
    /\ \A w \in Writers : wpc[w] \notin WriteStates
    /\ ledgerState' = loadState(disk)
    /\ recovery' = NoRecovery
    /\ UNCHANGED <<ledgerUp, disk, wpc, wdata, wop, ledgerNow>>
    /\ UNCHANGED <<svars, gvars, nvars, cvars, bvars, rvars>>

LedgerTick ==
    /\ \E t \in LedgerTimes : t > ledgerNow /\ ledgerNow' = t
    /\ recovery' = NoRecovery
    /\ UNCHANGED <<ledgerUp, ledgerState, disk, wpc, wdata, wop>>
    /\ UNCHANGED <<svars, gvars, nvars, cvars, bvars, rvars>>

\* The operations of the given callers and their saves.
LedgerCalls(callers) ==
    \/ \E w \in callers, k \in LedgerKeys : RecordTradeStart(w, k)
    \/ \E w \in callers, k \in LedgerKeys : RecordBuyExecuted(w, k)
    \/ \E w \in callers, k \in LedgerKeys, success \in BOOLEAN :
          RecordTradeComplete(w, k, success)
    \/ \E w \in callers, k \in LedgerKeys : AcknowledgeOrphanedTrade(w, k)
    \/ \E w \in callers : ClearState(w)
    \/ \E w \in callers : WriteOpens(w)
    \/ \E w \in callers, mixed \in BOOLEAN : WriteCompletes(w, mixed)
    \/ \E w \in callers : WriteFails(w)

\* The ledger alone: the strategy is not running.
InitLedger ==
    /\ InitStrategy /\ maxConcurrentTrades = 1
    /\ InitGateway /\ InitLimiter /\ InitCalls /\ InitLifecycle /\ InitConnection
    /\ \E file \in DiskInputs : InitLedgerOn(file)

\* One caller, which awaits each operation before the next, over time.
NextLedgerSeq ==
    \/ LedgerCalls({"w1"})
    \/ RecoverState
    \/ LedgerCrash
    \/ LedgerInitialize
    \/ LedgerRestart
    \/ LedgerTick

SpecLedgerSeq == InitLedger /\ [][NextLedgerSeq]_vars

\* Callers whose operations overlap, within one instant of the clock.
NextLedger ==
    \/ LedgerCalls(Writers)
    \/ LedgerCrash
    \/ LedgerInitialize
    \/ LedgerRestart

SpecLedger == InitLedger /\ [][NextLedger]_vars

\* ================================================================= claims
Holders(k) == {p \in Tasks : pc[p] \in LockStates /\ tradeKeyOf(opp[p]) = k}
Executing(k) == {p \in Tasks : pc[p] \in ExecuteStates /\ tradeKeyOf(opp[p]) = k}
LiveReserved(v, c) ==
    SumAmounts({r \in balanceReservations :
                   ~r.stale /\ r.exchange = v /\ r.currency = c})

\* C1: of the shouldExecuteTrade calls on one trade key that reach the lock step,
\* exactly one holds the lock at a time (the key is in activeTrades exactly when
\* one call holds it), and a call is refused at the lock step only while the key
\* is held, leaving the set as it was.
C1_OneAcquiresOtherFails ==
    /\ [](\A k \in TradeKeys :
            Cardinality(Holders(k)) = IF k \in activeTrades THEN 1 ELSE 0)
    /\ [][(lastEvent' # lastEvent /\ lastEvent'.kind = "blocked")
            => (lastEvent'.key \in activeTrades /\ activeTrades' = activeTrades)]_vars

C1_Witness ==
    \E k \in TradeKeys :
        lastEvent = [kind |-> "blocked", key |-> k] /\ Cardinality(Holders(k)) = 1

C3_AtMostOneOrderCreation ==
    \A id \in ClientOrderIds : venueCreated[id] <= 1

\* C4: per venue and currency, the live reservations sum to no more than the
\* free balance last fetched for it.
C4_ReservedWithinFree ==
    \A v \in Venues, c \in Currencies : LiveReserved(v, c) <= venueFree(v, c)

\* C5: no sell order is submitted when the buy result's filled amount is below
\* partialFillThreshold percent of the opportunity's amount.
C5_LowFillNeverSells ==
    \A p \in Tasks :
        pc[p] \in SellStates
            => buyResult[p].filled * 100 >= partialFillThreshold * opp[p].amount

\* C6: when the buy was partially filled at or above the threshold, the sell order
\* is submitted for exactly the filled amount.
C6_SellAmountIsFilled ==
    \A p \in Tasks :
        (/\ pc[p] \in SellStates
         /\ buyResult[p].filled * 100 >= partialFillThreshold * opp[p].amount
         /\ buyResult[p].filled < opp[p].amount)
            => sellAmount[p] = buyResult[p].filled

C6_Witness ==
    \E p \in Tasks :
        /\ pc[p] = "sell"
        /\ buyResult[p].filled = 97 /\ opp[p].amount = 100 /\ sellAmount[p] = 97

\* C7: at most one executeTrade runs per trade key, and its key is in activeTrades
\* for as long as it runs.
C7_OneExecutePerKey ==
    /\ \A k \in TradeKeys : Cardinality(Executing(k)) <= 1
    /\ \A p \in Tasks : pc[p] \in ExecuteStates => tradeKeyOf(opp[p]) \in activeTrades

C7_Witness ==
    \E p \in Tasks :
        /\ pc[p] \in BuyStates \cup SellStates
        /\ lastEvent = [kind |-> "blocked", key |-> tradeKeyOf(opp[p])]

\* C8: activeTrades never holds more keys than maxConcurrentTrades.
C8_ActiveTradesWithinCap == Cardinality(activeTrades) <= maxConcurrentTrades

C8_Witness ==
    /\ lastEvent.kind = "capped"
    /\ maxConcurrentTrades = 2
    /\ Cardinality(activeTrades) = maxConcurrentTrades

\* C9: the step on which executeTrade ends, on any path, leaves its trade key out
\* of activeTrades and no reservation of that key in balanceReservations.
C9_ExecuteEndReleasesAll ==
    [][\A p \in Tasks :
          (pc[p] \in ExecuteStates /\ pc'[p] = "idle")
              => /\ tradeKeyOf(opp[p]) \notin activeTrades'
                 /\ \A r \in balanceReservations' : r.tradeKey # tradeKeyOf(opp[p])]_vars

C9_Witness ==
    /\ lastEvent.kind = "execFailed"
    /\ lastEvent.key \notin activeTrades
    /\ \A r \in balanceReservations : r.tradeKey # lastEvent.key
    /\ balanceReservations # {}

\* C10: the step on which shouldExecuteTrade returns false after taking the lock
\* (balance check failed or threw, price validation failed) removes the key.
C10_FalseAfterLockReleases ==
    [][\A p \in Tasks :
          (pc[p] \in {"checkBalances", "validatePrices"} /\ pc'[p] = "idle")
              => tradeKeyOf(opp[p]) \notin activeTrades']_vars

C10_Witness ==
    \E k \in TradeKeys :
        lastEvent = [kind |-> "released", key |-> k] /\ Holders(k) # {}

\* ------------------------------------------------- WebSocketRateLimiter
\* A permit for venue v is granted or refused at the current instant.
permit(v, granted) ==
    lastPermit' = IF granted
                  THEN [venue |-> v, at |-> limiterNow, by |-> "canMakeRequest",
                        waited |-> "no"]
                  ELSE NoPermit

\* waitForPermit returns, or not yet; `slept` tells which sleeps the call went
\* through: "no", "backoff", "token" or "both".
waiterPermit(v, granted, slept) ==
    lastPermit' = IF granted
                  THEN [venue |-> v, at |-> limiterNow, by |-> "waitForPermit",
                        waited |-> slept]
                  ELSE NoPermit

\* initialize(exchangeId, customConfig)
LimiterInitialize(v, config) ==
    /\ configs' = [configs EXCEPT ![v] = config]
    /\ buckets' = [buckets EXCEPT ![v] =
           [tokens |-> config.maxRequests, lastRefill |-> limiterNow,
            currentBackoffMs |-> config.initialBackoffMs, backoffUntil |-> 0,
            set |-> TRUE]]
    /\ backoffDue' = [backoffDue EXCEPT ![v].sinceReset = 0]
    /\ permit(v, FALSE)
    /\ UNCHANGED <<limiterNow, rpc, rwake>>
    /\ UNCHANGED <<svars, gvars, nvars, cvars, bvars, lvars>>

\* canMakeRequest(exchangeId), called from outside the class.
CanMakeRequest(v) ==
    /\ LET answer == canMakeRequest(buckets[v], configs[v], limiterNow) IN
       /\ buckets' = [buckets EXCEPT ![v] = answer.bucket]
       /\ permit(v, answer.ok)
    /\ UNCHANGED <<configs, limiterNow, rpc, rwake, backoffDue>>
    /\ UNCHANGED <<svars, gvars, nvars, cvars, bvars, lvars>>

\* As waitForToken, but the call returns without testing canMakeRequest.
waitForToken_noLoop(r, v, waitTime, slept) ==
    /\ UNCHANGED buckets
    /\ waiterPermit(v, TRUE, slept)
    /\ rpc' = [rpc EXCEPT ![r] = NoWait] /\ rwake' = [rwake EXCEPT ![r] = 0]

\* The loop of waitForPermit: return when canMakeRequest, else sleep waitTime.
waitForToken(r, v, waitTime, slept) ==
    LET answer == canMakeRequest(buckets[v], configs[v], limiterNow) IN
    /\ buckets' = [buckets EXCEPT ![v] = answer.bucket]
    /\ waiterPermit(v, answer.ok, slept)
    /\ IF answer.ok
       THEN rpc' = [rpc EXCEPT ![r] = NoWait] /\ rwake' = [rwake EXCEPT ![r] = 0]
       ELSE /\ rpc' = [rpc EXCEPT ![r] =
                   [at |-> "sleepToken", venue |-> v, waitTime |-> waitTime,
                    slept |-> IF slept \in {"backoff", "both"} THEN "both"
                              ELSE "token"]]
            /\ rwake' = [rwake EXCEPT ![r] = limiterNow + waitTime]

\* waitForPermit(exchangeId) up to its first await or its return.
WaitForPermit(r, v) ==
    /\ rpc[r] = NoWait
    /\ IF ~buckets[v].set
       THEN /\ waiterPermit(v, TRUE, "no")
            /\ UNCHANGED <<buckets, rpc, rwake>>
       ELSE LET waitTime == Min(100, configs[v].windowMs \div configs[v].maxRequests)
            IN IF limiterNow < buckets[v].backoffUntil
               THEN /\ rpc' = [rpc EXCEPT ![r] =
                           [at |-> "sleepBackoff", venue |-> v,
                            waitTime |-> waitTime, slept |-> "backoff"]]
                    /\ rwake' = [rwake EXCEPT ![r] = buckets[v].backoffUntil]
                    /\ permit(v, FALSE)
                    /\ UNCHANGED buckets
               ELSE waitForToken(r, v, waitTime, "no")
    /\ UNCHANGED <<configs, limiterNow, backoffDue>>
    /\ UNCHANGED <<svars, gvars, nvars, cvars, bvars, lvars>>

\* The sleep of a waitForPermit call is over: the loop tests canMakeRequest.
WaitWakes(r) ==
    /\ rpc[r] # NoWait
    /\ limiterNow >= rwake[r]
    /\ waitForToken(r, rpc[r].venue, rpc[r].waitTime, rpc[r].slept)
    /\ UNCHANGED <<configs, limiterNow, backoffDue>>
    /\ UNCHANGED <<svars, gvars, nvars, cvars, bvars, lvars>>

\* recordRequest(exchangeId)
RecordRequest(v) ==
    /\ buckets[v].set
    /\ buckets' = [buckets EXCEPT ![v] = recordRequest(@, configs[v], limiterNow)]
    /\ permit(v, FALSE)
    /\ UNCHANGED <<configs, limiterNow, rpc, rwake, backoffDue>>
    /\ UNCHANGED <<svars, gvars, nvars, cvars, bvars, lvars>>

\* recordRateLimitError(exchangeId); backoffDue remembers when the backoff that
\* was current at the call ends.
RecordRateLimitError(v) ==
    /\ buckets[v].set
    /\ buckets' = [buckets EXCEPT ![v] =
                      recordRateLimitError(@, configs[v], limiterNow)]
    /\ LET due == limiterNow + buckets[v].currentBackoffMs IN
       backoffDue' = [backoffDue EXCEPT ![v] =
           [ever |-> Max(@.ever, due), sinceReset |-> Max(@.sinceReset, due)]]
    /\ permit(v, FALSE)
    /\ UNCHANGED <<configs, limiterNow, rpc, rwake>>
    /\ UNCHANGED <<svars, gvars, nvars, cvars, bvars, lvars>>

\* resetBackoff(exchangeId)
ResetBackoff(v) ==
    /\ buckets[v].set
    /\ buckets' = [buckets EXCEPT ![v] = resetBackoff(@, configs[v])]
    /\ backoffDue' = [backoffDue EXCEPT ![v].sinceReset = 0]
    /\ permit(v, FALSE)
    /\ UNCHANGED <<configs, limiterNow, rpc, rwake>>
    /\ UNCHANGED <<svars, gvars, nvars, cvars, bvars, lvars>>

\* shutdown(): buckets and configs are cleared.
LimiterShutdown ==
    /\ \E v \in RVenues : buckets[v].set
    /\ buckets' = [v \in RVenues |-> NoBucket]
    /\ configs' = [v \in RVenues |-> NoConfig]
    /\ backoffDue' = [v \in RVenues |-> [backoffDue[v] EXCEPT !.sinceReset = 0]]
    /\ lastPermit' = NoPermit
    /\ UNCHANGED <<limiterNow, rpc, rwake>>
    /\ UNCHANGED <<svars, gvars, nvars, cvars, bvars, lvars>>

\* A millisecond passes.
LimiterTick ==
    /\ limiterNow < MaxNow
    /\ limiterNow' = limiterNow + 1
    /\ lastPermit' = NoPermit
    /\ UNCHANGED <<buckets, configs, rpc, rwake, backoffDue>>
    /\ UNCHANGED <<svars, gvars, nvars, cvars, bvars, lvars>>

NextLimiter ==
    \/ \E v \in RVenues, config \in LimiterConfigs : LimiterInitialize(v, config)
    \/ \E v \in RVenues : CanMakeRequest(v)
    \/ \E r \in Waiters, v \in RVenues : WaitForPermit(r, v)
    \/ \E r \in Waiters : WaitWakes(r)
    \/ \E v \in RVenues : RecordRequest(v)
    \/ \E v \in RVenues : RecordRateLimitError(v)
    \/ \E v \in RVenues : ResetBackoff(v)
    \/ LimiterShutdown
    \/ LimiterTick

\* The rate limiter alone: nothing else is running.
InitLimiterAlone ==
    /\ InitStrategy /\ maxConcurrentTrades = 1
    /\ InitGateway /\ InitLedgerOn(NoFile) /\ InitLimiter /\ InitCalls
    /\ InitLifecycle /\ InitConnection

SpecLimiter == InitLimiterAlone /\ [][NextLimiter]_vars

\* ------------------------------------------------- calls of pure functions
\* Everything but the call under way is at rest.
InitOthers ==
    /\ InitStrategy /\ maxConcurrentTrades = 1
    /\ InitGateway /\ InitLedgerOn(NoFile) /\ InitLimiter
    /\ InitLifecycle /\ InitConnection

\* getExchangeCompatibleLimit(exchangeId, requestedLimit) is about to be called.
InitDepth ==
    /\ InitOthers
    /\ \E e \in DepthExchanges, n \in DepthRequests :
          depthCall = [NoDepthCall EXCEPT !.exchangeId = e, !.requestedLimit = n]
    /\ validateCall = NoValidateCall
    /\ scanCall = NoScanCall

GetExchangeCompatibleLimit ==
    /\ ~depthCall.done
    /\ LET returned == getExchangeCompatibleLimit(depthCall.exchangeId,
                                                  depthCall.requestedLimit) IN
       depthCall' = [depthCall EXCEPT !.done = TRUE, !.limit = returned.limit,
                                      !.warned = returned.warned]
    /\ UNCHANGED <<svars, gvars, lvars, rvars, validateCall, scanCall, bvars, cvars>>

NextDepth == GetExchangeCompatibleLimit

SpecDepth == InitDepth /\ [][NextDepth]_vars

\* validateOpportunity(opportunity, maxAge, referenceTimestamp) is about to be
\* called.
InitValidate ==
    /\ InitOthers
    /\ depthCall = NoDepthCall /\ scanCall = NoScanCall
    /\ \E i \in ValidateInputs :
          validateCall = [opportunity |-> i.opportunity, maxAge |-> i.maxAge,
                          now |-> i.now, done |-> FALSE, valid |-> FALSE]

ValidateOpportunity ==
    /\ ~validateCall.done
    /\ validateCall' =
          [validateCall EXCEPT
              !.done = TRUE,
              !.valid = validateOpportunity(validateCall.opportunity,
                                            validateCall.maxAge, validateCall.now)]
    /\ UNCHANGED <<svars, gvars, lvars, rvars, depthCall, scanCall, bvars, cvars>>

NextValidate == ValidateOpportunity

SpecValidate == InitValidate /\ [][NextValidate]_vars

\* findArbitrageOpportunities(marketData, minProfitPercent, maxAmount, feeGetter)
\* is about to be called.
InitScan ==
    /\ InitOthers
    /\ depthCall = NoDepthCall /\ validateCall = NoValidateCall
    /\ \E md \in MarketDataInputs, minProfit \in MinProfitInputs :
          scanCall = [marketData |-> md, minProfitPercent |-> minProfit,
                      maxAmount |-> ScanMaxAmount, done |-> FALSE,
                      opportunities |-> <<>>]

FindArbitrageOpportunities ==
    /\ ~scanCall.done
    /\ scanCall' =
          [scanCall EXCEPT
              !.done = TRUE,
              !.opportunities =
                  findArbitrageOpportunities(scanCall.marketData,
                                             scanCall.minProfitPercent,
                                             scanCall.maxAmount)]
    /\ UNCHANGED <<svars, gvars, lvars, rvars, depthCall, validateCall, bvars, cvars>>

NextScan == FindArbitrageOpportunities

SpecScan == InitScan /\ [][NextScan]_vars

\* ------------------------------------- BaseStrategy.start / stop, monitoring
\* config.symbols, in the order the scan visits them.
configSymbols == <<<<"X", "Y">>, <<"Z", "Y">>>>

call(op, outcome, sink, waited) ==
    [op |-> op, outcome |-> outcome, sink |-> sink, waited |-> waited]

otherStrategyFields ==
    <<maxConcurrentTrades, pc, opp, lastEvent, balanceReservations, buyResult,
      sellAmount>>

\* start() calls still inside onStart: each will make a timer.
startsPending == Cardinality({k \in LifeCallers : lpc[k] = "onStart"})

\* As StartCall, without the check of _isRunning.
StartCall_noCheck(k) ==
    /\ lpc[k] = "idle"
    /\ liveIntervals + startsPending < MaxIntervals
    /\ isRunning' = TRUE
    /\ lpc' = [lpc EXCEPT ![k] = "onStart"]
    /\ lastCall' = call("start", "subscribing", "none", 0)
    /\ UNCHANGED <<monitoringInterval, liveIntervals, onStopWaitTime, tickpc>>
    /\ UNCHANGED <<svars, gvars, lvars, rvars, nvars, cvars>>

\* start() up to the first await of onStart: it throws when the strategy is
\* running, else sets _isRunning and subscribes to the order books.
StartCall(k) ==
    /\ lpc[k] = "idle"
    /\ IF isRunning
       THEN /\ lastCall' = call("start", "already running", "none", 0)
            /\ UNCHANGED <<isRunning, lpc>>
       ELSE /\ liveIntervals + startsPending < MaxIntervals
            /\ isRunning' = TRUE
            /\ lpc' = [lpc EXCEPT ![k] = "onStart"]
            /\ lastCall' = call("start", "subscribing", "none", 0)
    /\ UNCHANGED <<monitoringInterval, liveIntervals, onStopWaitTime, tickpc>>
    /\ UNCHANGED <<svars, gvars, lvars, rvars, nvars, cvars>>

\* The subscriptions settled (a failed one is logged): startMonitoring() makes
\* the timer and start() resolves.
StartMonitoring(k) ==
    /\ lpc[k] = "onStart"
    /\ liveIntervals' = liveIntervals + 1
    /\ monitoringInterval' = TRUE
    /\ lpc' = [lpc EXCEPT ![k] = "idle"]
    /\ lastCall' = call("onStart", "resolved", "none", 0)
    /\ UNCHANGED <<isRunning, onStopWaitTime, tickpc>>
    /\ UNCHANGED <<svars, gvars, lvars, rvars, nvars, cvars>>

\* stop() up to the first sleep of onStop: nothing when the strategy is not
\* running, else _isRunning is cleared, the timer held by monitoringInterval is
\* cleared and, with trades in flight, the wait begins.
StopCall(k) ==
    /\ lpc[k] = "idle"
    /\ IF ~isRunning
       THEN /\ lastCall' = call("stop", "not running", "none", 0)
            /\ UNCHANGED <<isRunning, monitoringInterval, liveIntervals, lpc, onStopWaitTime>>
       ELSE /\ isRunning' = FALSE
            /\ monitoringInterval' = FALSE
            /\ liveIntervals' = IF monitoringInterval THEN liveIntervals - 1
                                 ELSE liveIntervals
            /\ onStopWaitTime' = [onStopWaitTime EXCEPT ![k] = 0]
            /\ IF activeTrades = {}
               THEN /\ lastCall' = call("stop", "resolved", "none", 0)
                    /\ UNCHANGED lpc
               ELSE /\ lastCall' = call("stop", "waiting", "none", 0)
                    /\ lpc' = [lpc EXCEPT ![k] = "onStop"]
    /\ UNCHANGED tickpc
    /\ UNCHANGED <<svars, gvars, lvars, rvars, nvars, cvars>>

\* As OnStopSleepReturns, but waitTime is not advanced.
OnStopSleepReturns_noCount(k) ==
    /\ lpc[k] = "onStop"
    /\ IF activeTrades # {} /\ onStopWaitTime[k] < maxWaitTime
       THEN /\ lastCall' = call("onStop", "waiting", "none", onStopWaitTime[k])
            /\ UNCHANGED <<lpc, onStopWaitTime>>
       ELSE /\ lpc' = [lpc EXCEPT ![k] = "idle"]
            /\ onStopWaitTime' = [onStopWaitTime EXCEPT ![k] = 0]
            /\ lastCall' = call("onStop", "resolved",
                                IF activeTrades # {} THEN "logger.warn" ELSE "none",
                                onStopWaitTime[k])
    /\ UNCHANGED <<isRunning, monitoringInterval, liveIntervals, tickpc>>
    /\ UNCHANGED <<svars, gvars, lvars, rvars, nvars, cvars>>

\* sleep(1000) of onStop's loop returned: waitTime grows, and the loop goes on
\* while trades are in flight and waitTime is below maxWaitTime; after the loop
\* a warning is logged if trades remain, and stop() resolves.
OnStopSleepReturns(k) ==
    /\ lpc[k] = "onStop"
    /\ LET w == onStopWaitTime[k] + 1000 IN
       IF activeTrades # {} /\ w < maxWaitTime
       THEN /\ onStopWaitTime' = [onStopWaitTime EXCEPT ![k] = w]
            /\ lastCall' = call("onStop", "waiting", "none", w)
            /\ UNCHANGED lpc
       ELSE /\ lpc' = [lpc EXCEPT ![k] = "idle"]
            /\ onStopWaitTime' = [onStopWaitTime EXCEPT ![k] = 0]
            /\ lastCall' = call("onStop", "resolved",
                                IF activeTrades # {} THEN "logger.warn" ELSE "none", w)
    /\ UNCHANGED <<isRunning, monitoringInterval, liveIntervals, tickpc>>
    /\ UNCHANGED <<svars, gvars, lvars, rvars, nvars, cvars>>

\* A timer of the monitoring loop fires (one callback is followed at a time):
\* the callback returns at once unless the strategy is running.
MonitoringTick ==
    /\ liveIntervals > 0
    /\ tickpc = 0
    /\ IF ~isRunning
       THEN /\ lastCall' = call("tick", "not running", "none", 0)
            /\ UNCHANGED tickpc
       ELSE /\ lastCall' = call("tick", "scanning", "none", 0)
            /\ tickpc' = 1
    /\ UNCHANGED <<isRunning, monitoringInterval, liveIntervals, lpc, onStopWaitTime>>
    /\ UNCHANGED <<svars, gvars, lvars, rvars, nvars, cvars>>

\* scanForOpportunities moves on to the next of config.symbols, or returns.
nextSymbol(i) == IF i = Len(configSymbols) THEN 0 ELSE i + 1

\* scanSymbolForOpportunities found nothing to execute for the symbol.
ScanSymbolFindsNothing ==
    /\ tickpc > 0
    /\ tickpc' = nextSymbol(tickpc)
    /\ lastCall' = call("scan", "nothing", "none", tickpc)
    /\ UNCHANGED <<isRunning, monitoringInterval, liveIntervals, lpc, onStopWaitTime>>
    /\ UNCHANGED <<svars, gvars, lvars, rvars, nvars, cvars>>

\* As ScanSymbolThrows, but the error leaves scanForOpportunities and reaches
\* the catch of the timer's callback, which calls recordError.
ScanSymbolThrows_uncaught ==
    /\ tickpc > 0
    /\ tickpc' = 0
    /\ lastCall' = call("scan", "threw", "status.errors", tickpc)
    /\ UNCHANGED <<isRunning, monitoringInterval, liveIntervals, lpc, onStopWaitTime>>
    /\ UNCHANGED <<svars, gvars, lvars, rvars, nvars, cvars>>

\* getMarketData, or the handling of an opportunity of the symbol, threw: the
\* catch of scanSymbolForOpportunities logs the error at debug level.
ScanSymbolThrows ==
    /\ tickpc > 0
    /\ tickpc' = nextSymbol(tickpc)
    /\ lastCall' = call("scan", "threw", "logger.debug", tickpc)
    /\ UNCHANGED <<isRunning, monitoringInterval, liveIntervals, lpc, onStopWaitTime>>
    /\ UNCHANGED <<svars, gvars, lvars, rvars, nvars, cvars>>

\* shouldExecuteTrade accepted an opportunity of the symbol, holding its lock,
\* and executeTrade was called without being awaited.
ScanSymbolExecutes(key) ==
    /\ tickpc > 0
    /\ key[1] = configSymbols[tickpc]
    /\ ~capReached(activeTrades, maxConcurrentTrades)
    /\ tryAcquireTradeLock(activeTrades, key).acquired
    /\ activeTrades' = tryAcquireTradeLock(activeTrades, key).active
    /\ tickpc' = nextSymbol(tickpc)
    /\ lastCall' = call("scan", "executing", "none", tickpc)
    /\ UNCHANGED <<isRunning, monitoringInterval, liveIntervals, lpc, onStopWaitTime>>
    /\ UNCHANGED <<otherStrategyFields, gvars, lvars, rvars, nvars, cvars>>

\* executeTrade reached its finally block; an error thrown inside its try was
\* caught there and pushed to execution.errors.
ExecuteTradeSettles(key, threw) ==
    /\ key \in activeTrades
    /\ activeTrades' = activeTrades \ {key}
    /\ lastCall' = call("executeTrade", IF threw THEN "threw" ELSE "completed",
                        IF threw THEN "execution.errors" ELSE "none", 0)
    /\ UNCHANGED <<isRunning, monitoringInterval, liveIntervals, lpc, onStopWaitTime, tickpc>>
    /\ UNCHANGED <<otherStrategyFields, gvars, lvars, rvars, nvars, cvars>>

NextLifecycle ==
    \/ \E k \in Starters : StartCall(k)
    \/ \E k \in Starters : StartMonitoring(k)
    \/ \E k \in Stoppers : StopCall(k)
    \/ \E k \in Stoppers : OnStopSleepReturns(k)
    \/ MonitoringTick
    \/ ScanSymbolFindsNothing
    \/ ScanSymbolThrows
    \/ \E key \in TradeKeys : ScanSymbolExecutes(key)
    \/ \E key \in TradeKeys, threw \in BOOLEAN : ExecuteTradeSettles(key, threw)

\* The strategy's lifecycle alone: the other components are at rest.
InitLifecycleAlone ==
    /\ InitStrategy /\ InitGateway /\ InitLedgerOn(NoFile) /\ InitLimiter
    /\ InitCalls /\ InitLifecycle /\ InitConnection

SpecLifecycle == InitLifecycleAlone /\ [][NextLifecycle]_vars

\* The timer of sleep(1000) fires: a stop() that is waiting is resumed.
SpecLifecycleFair ==
    SpecLifecycle /\ \A k \in Stoppers : WF_vars(OnStopSleepReturns(k))

\* C11: an order of a trade is in flight only if the ledger holds the trade's entry,
\* written by a recordTradeStart that completed.
C11_NoOrderWithoutRecordStart ==
    \A p \in Tasks :
        pc[p] \in BuyStates \cup SellStates
            => tradeKeyOf(opp[p]) \in activeKeys(ledgerState)

\* C12: every transition a ledger operation records for a trade key is one of
\* none -> pending, pending -> buy_executed, buy_executed -> completed or failed,
\* pending -> failed.
C12_LedgerTransitionsOrdered ==
    \A w \in Writers :
        wop[w].op \in {"start", "buyExecuted", "complete"}
            => <<wop[w].from, wop[w].to>> \in
                  {<<"none", "pending">>, <<"pending", "buy_executed">>,
                   <<"buy_executed", "completed">>, <<"buy_executed", "failed">>,
                   <<"pending", "failed">>}

\* C13: whenever the process is down, the state file is a complete document (the
\* previous one or the new one) or does not exist yet.
C13_CrashLeavesCompleteDocument == ~ledgerUp => disk # Torn

\* C14: no two saves have the file open at once, and once every caller's save has
\* resolved, the file holds the state with all their transitions.
C14_WritesExclusiveAndComplete ==
    /\ Cardinality({w \in Writers : wpc[w] = "writing"}) <= 1
    /\ (\A w \in Writers : wpc[w] = "saved") => disk = JSONstringify(ledgerState)

\* C15: when the save of a recordTradeComplete(success) on a buy_executed trade
\* resolves, loading the file gives the active set in memory, without the completed
\* trade, and no orphan while every entry is within the threshold; and restarting
\* after a resolved save leaves the state as it was.
C15_RoundTripAfterCompletion ==
    [][/\ \A w \in Writers :
            (/\ wpc[w] = "writing" /\ wpc'[w] = "saved"
             /\ wop[w].op = "complete" /\ wop[w].from = "buy_executed"
             /\ wop[w].to = "completed")
                => LET reloaded == loadState(disk') IN
                   /\ reloaded.activeTrades = ledgerState'.activeTrades
                   /\ wop[w].tradeKey \notin activeKeys(reloaded)
                   /\ (\A k \in activeKeys(ledgerState') :
                          ledgerNow - ledgerState'.activeTrades[k].startedAt
                              <= ORPHAN_THRESHOLD_MS)
                        => detectOrphanedTrades(reloaded, ledgerNow,
                                                ORPHAN_THRESHOLD_MS) = {}
       /\ (ledgerUp /\ ledgerUp' /\ wpc' = wpc /\ wpc["w1"] = "saved")
            => ledgerState' = ledgerState]_vars

C15_Witness ==
    /\ wpc["w1"] = "writing"
    /\ wop["w1"].op = "complete" /\ wop["w1"].from = "buy_executed"
    /\ wop["w1"].to = "completed"
    /\ activeKeys(ledgerState) # {}

\* C16: recoverState() returns every active trade in exactly one of its two lists,
\* orphaned exactly when its age exceeds 24 h, and changes neither the state nor
\* the file; initialize() keeps the entries of the file whatever their age; an
\* operation that takes an orphan out of the active set is acknowledgeOrphanedTrade
\* on it.
recoverReports ==
    recovery'.ran =>
        /\ recovery'.recoveredTrades \cup recovery'.orphanedTrades
              = activeKeys(ledgerState)
        /\ recovery'.recoveredTrades \cap recovery'.orphanedTrades = {}
        /\ recovery'.orphanedTrades =
              {k \in activeKeys(ledgerState) :
                  ledgerNow - ledgerState.activeTrades[k].startedAt
                      > ORPHAN_THRESHOLD_MS}
        /\ ledgerState' = ledgerState /\ disk' = disk

loadKeepsOrphans ==
    (~ledgerUp /\ ledgerUp' /\ disk.kind = "json" /\ disk.version = STATE_VERSION)
        => activeKeys(ledgerState') = {e.tradeKey : e \in disk.activeTrades}

acknowledgeRemoves ==
    \A w \in Writers :
        (wop'[w] # wop[w] /\ wop'[w].op = "acknowledge")
            => wop'[w].tradeKey \notin activeKeys(ledgerState')

\* The operations that begin on this step and take orphan k out of the active set.
orphanRemovedBy(k) ==
    IF /\ k \in detectOrphanedTrades(ledgerState, ledgerNow, ORPHAN_THRESHOLD_MS)
       /\ k \notin activeKeys(ledgerState')
    THEN {wop'[w].op : w \in {x \in Writers : wpc[x] \in LedgerResting
                                              /\ wpc'[x] = "writeFile"}}
    ELSE {}

C16_OnlyAcknowledgeRemoves ==
    [][/\ recoverReports /\ loadKeepsOrphans /\ acknowledgeRemoves
       /\ \A k \in LedgerKeys : orphanRemovedBy(k) \subseteq {"acknowledge"}]_vars

\* C16 as amended: as above, but the operations that take an orphan out of the
\* active set are acknowledgeOrphanedTrade and recordTradeComplete on its key, and
\* clearState.
C16_RecoverReportsAndKeeps ==
    [][/\ recoverReports /\ loadKeepsOrphans /\ acknowledgeRemoves
       /\ \A k \in LedgerKeys :
            /\ orphanRemovedBy(k) \subseteq {"acknowledge", "complete", "clear"}
            /\ \A w \in Writers :
                  (wop'[w] # wop[w] /\ wop'[w].op \in {"acknowledge", "complete"}
                      /\ orphanRemovedBy(k) # {})
                      => wop'[w].tradeKey = k]_vars

C16_Witness ==
    /\ recovery.ran
    /\ recovery.orphanedTrades # {}
    /\ recovery.recoveredTrades # {}
    /\ activeKeys(ledgerState) = LedgerKeys

\* C17: initialize() on a missing file or on a file of another version starts
\* with no active trade and leaves the file as it is.
C17_UnknownVersionStartsEmpty ==
    [][(/\ ~ledgerUp /\ ledgerUp'
        /\ \/ disk.kind = "ENOENT"
           \/ (disk.kind = "json" /\ disk.version # STATE_VERSION))
          => (activeKeys(ledgerState') = {} /\ disk' = disk)]_vars

C17_Witness ==
    /\ ledgerUp
    /\ disk.kind = "json" /\ disk.version # STATE_VERSION /\ disk.activeTrades # {}
    /\ activeKeys(ledgerState) = {}

\* C18: while recentOrders holds a fresh entry that the timeout recovery recorded
\* for a clientOrderId, no createOrder is invoked for that clientOrderId.
C18_RecoveredOrderNotResubmitted ==
    [][\A id \in ClientOrderIds :
          (\E e \in recentOrders : e.cid = id /\ e.via = "recovery" /\ ~e.stale)
              => createCalls'[id] = createCalls[id]]_vars

\* C19: an executeTrade call that is past its submission, awaiting createOrder or
\* the check that follows a timeout, has invoked createOrder exactly once, and no
\* call invokes it a second time.
C19_CreateOrderAttemptedOnce ==
    \A c \in Callers :
        /\ gwCalls[c] <= 1
        /\ gwpc[c] \in {"creating", "recovering"} <=> gwCalls[c] = 1

C19_Witness ==
    \E c \in Callers :
        /\ gwpc[c] = "recovering" /\ gwCalls[c] = 1
        /\ createCalls[gwcid[c]] = MaxCreateCalls

\* C20: a permit for a venue is granted no earlier than the end of the backoff of
\* every rate limit error recorded for the venue before, whatever was called in
\* between.
C20_NoPermitDuringBackoff ==
    lastPermit # NoPermit => lastPermit.at >= backoffDue[lastPermit.venue].ever

\* C20 as amended: for an initialized venue whose configured backoff never
\* shrinks, a permit is granted no earlier than the end of the backoff of every
\* rate limit error recorded since the last resetBackoff, initialize or shutdown.
C20_NoPermitDuringBackoffUnlessReset ==
    (/\ lastPermit # NoPermit
     /\ buckets[lastPermit.venue].set
     /\ backoffGrows(configs[lastPermit.venue]))
        => lastPermit.at >= backoffDue[lastPermit.venue].sinceReset

C20_Witness ==
    /\ lastPermit # NoPermit
    /\ buckets[lastPermit.venue].set
    /\ backoffGrows(configs[lastPermit.venue])
    /\ backoffDue[lastPermit.venue].sinceReset > 1
    /\ lastPermit.at = backoffDue[lastPermit.venue].sinceReset

\* C21: waitForPermit returns only for a venue that has a bucket, holding a token
\* and past its backoff.
C21_AcquireNeedsTokenAndNoBackoff ==
    lastPermit.by = "waitForPermit"
        => /\ buckets[lastPermit.venue].set
           /\ buckets[lastPermit.venue].tokens > 0
           /\ lastPermit.at >= buckets[lastPermit.venue].backoffUntil

\* C21 as amended: for a venue that has a bucket, waitForPermit returns only when
\* the bucket holds a token and the backoff is over, so not before the later of
\* the two; for a venue without a bucket it returns at once.
C21_AcquireNeedsTokenAndNoBackoffIfInitialized ==
    (lastPermit.by = "waitForPermit" /\ buckets[lastPermit.venue].set)
        => /\ buckets[lastPermit.venue].tokens > 0
           /\ lastPermit.at >= buckets[lastPermit.venue].backoffUntil

C21_Witness ==
    /\ lastPermit.by = "waitForPermit" /\ lastPermit.waited = "both"
    /\ buckets[lastPermit.venue].set
    /\ buckets[lastPermit.venue].backoffUntil > 0
    /\ lastPermit.at > buckets[lastPermit.venue].backoffUntil

\* C22: recordRateLimitError starts a backoff of the current backoff value and
\* sets the next one to min(maxBackoffMs, currentBackoffMs * backoffMultiplier),
\* which is at most maxBackoffMs.
C22_BackoffCapped ==
    [][\A v \in RVenues :
          /\ (buckets[v].set /\ backoffDue[v].sinceReset > 0)
                => buckets[v].currentBackoffMs <= configs[v].maxBackoffMs
          /\ (buckets[v].set /\ buckets'[v].set /\ configs'[v] = configs[v]
              /\ buckets'[v].backoffUntil # buckets[v].backoffUntil
              /\ buckets'[v].backoffUntil # 0)
              => /\ buckets'[v].backoffUntil = limiterNow + buckets[v].currentBackoffMs
                 /\ buckets'[v].currentBackoffMs =
                        Min(configs[v].maxBackoffMs,
                            buckets[v].currentBackoffMs * configs[v].backoffMultiplier)
                 /\ buckets'[v].currentBackoffMs <= configs[v].maxBackoffMs]_vars

C22_Witness ==
    \E v \in RVenues :
        /\ buckets[v].set /\ configs[v].backoffMultiplier > 1
        /\ buckets[v].currentBackoffMs = configs[v].maxBackoffMs
        /\ buckets[v].backoffUntil = limiterNow + configs[v].maxBackoffMs

C27_StartStopGuarded ==
    [][/\ (lastCall'.op = "start" /\ isRunning)
            => /\ lastCall'.outcome = "already running"
               /\ isRunning'
               /\ UNCHANGED <<monitoringInterval, liveIntervals, lpc, onStopWaitTime,
                              tickpc, svars>>
       /\ (lastCall'.op = "stop" /\ ~isRunning)
            => /\ lastCall'.outcome = "not running"
               /\ UNCHANGED <<isRunning, monitoringInterval, liveIntervals, lpc,
                              onStopWaitTime, tickpc, svars>>]_vars

C27_Witness ==
    /\ lastCall.op = "start" /\ lastCall.outcome = "already running"
    /\ isRunning /\ monitoringInterval /\ liveIntervals = 1
    /\ \A k \in LifeCallers : lpc[k] = "idle"

\* C28: stop() on a running strategy clears the timer of the monitoring loop,
\* whose callbacks start no scan while the strategy is not running; its wait for
\* the trades in flight ends, after 60000 ms of sleep at most, and it logs a
\* warning when it returns with trades still in flight.
C28_StopTerminates ==
    /\ [][(lastCall'.op = "stop" /\ isRunning)
              => /\ ~isRunning' /\ ~monitoringInterval'
                 /\ liveIntervals' =
                        IF monitoringInterval THEN liveIntervals - 1 ELSE liveIntervals
                 /\ lastCall'.outcome = "waiting" <=> activeTrades # {}]_vars
    /\ [][(lastCall'.op = "tick" /\ ~isRunning) => tickpc' = 0]_vars
    /\ [][(lastCall'.op = "onStop" /\ lastCall'.outcome = "resolved")
              => /\ lastCall'.waited <= maxWaitTime
                 /\ lastCall'.sink = "logger.warn" <=> activeTrades # {}
                 /\ activeTrades # {} => lastCall'.waited = maxWaitTime]_vars
    /\ \A k \in Stoppers : lpc[k] = "onStop" ~> lpc[k] = "idle"

C28_Witness ==
    /\ lastCall = call("onStop", "resolved", "logger.warn", maxWaitTime)
    /\ activeTrades # {}
    /\ ~isRunning /\ ~monitoringInterval
    /\ \A k \in Stoppers : lpc[k] = "idle"

C30_LockEventuallyReleased ==
    \A k \in TradeKeys : (k \in activeTrades) ~> (k \notin activeTrades)

C30_Witness ==
    /\ lastEvent.kind = "execFailed"
    /\ lastEvent.key \notin activeTrades
    /\ \E p \in Tasks : pc[p] \in SellStates

\* C24: for an exchange of ORDER_BOOK_LIMITS, getExchangeCompatibleLimit returns
\* the maximum with a warning when the requested depth exceeds it, and otherwise
\* the smallest accepted limit that is at least the requested depth, with no
\* warning.
C24_DepthNormalized ==
    (depthCall.done /\ depthCall.exchangeId \in DOMAIN ORDER_BOOK_LIMITS)
        => LET table == ORDER_BOOK_LIMITS[depthCall.exchangeId]
               accepted == {table.validLimits[i] : i \in DOMAIN table.validLimits}
               n == depthCall.requestedLimit
           IN /\ depthCall.warned <=> n > table.maxLimit
              /\ n > table.maxLimit => depthCall.limit = table.maxLimit
              /\ n <= table.maxLimit =>
                    /\ depthCall.limit \in accepted
                    /\ depthCall.limit >= n
                    /\ \A l \in accepted : l >= n => depthCall.limit <= l

C24_Witness ==
    /\ depthCall.done /\ depthCall.warned
    /\ depthCall.exchangeId = "kucoin"
    /\ depthCall.requestedLimit = 101 /\ depthCall.limit = 100

\* C25: validateOpportunity returns false for an opportunity whose age,
\* now - opportunity.timestamp, is greater than maxAge or negative.
C25_StaleOrFutureRejected ==
    LET age == validateCall.now - validateCall.opportunity.timestamp IN
    (validateCall.done /\ (age > validateCall.maxAge \/ age < 0))
        => ~validateCall.valid

C25_Witness ==
    /\ validateCall.done /\ ~validateCall.valid
    /\ validateCall.now - validateCall.opportunity.timestamp = -1
    /\ validateCall.opportunity.profitPercent > 0
    /\ validateCall.opportunity.amount > 0
    /\ validateCall.opportunity.buyPrice > 0
    /\ validateCall.opportunity.sellPrice > 0

\* C26: every opportunity findArbitrageOpportunities returns has
\* sellPrice > buyPrice, profitPercent >= minProfitPercent and amount <= maxAmount,
\* and it returns none for a symbol on which fewer than two exchanges have an
\* order book with a level, so none at all for fewer than two items.
venuesWithData(symbol) ==
    {scanCall.marketData[i].exchange :
        i \in {x \in DOMAIN scanCall.marketData :
                 /\ scanCall.marketData[x].symbol = symbol
                 /\ \/ Len(scanCall.marketData[x].orderBook.asks) > 0
                    \/ Len(scanCall.marketData[x].orderBook.bids) > 0}}

C26_ScanResultsProfitableAndCapped ==
    scanCall.done =>
        /\ \A i \in DOMAIN scanCall.opportunities :
              LET o == scanCall.opportunities[i] IN
              /\ o.sellPrice > o.buyPrice
              /\ o.profitPercent >= scanCall.minProfitPercent
              /\ o.amount <= scanCall.maxAmount
              /\ Cardinality(venuesWithData(o.symbol)) >= 2
        /\ Len(scanCall.marketData) < 2 => scanCall.opportunities = <<>>

C26_Witness ==
    /\ scanCall.done
    /\ Len(scanCall.opportunities) >= 2
    /\ \E i \in DOMAIN scanCall.opportunities :
          /\ scanCall.opportunities[i].amount = scanCall.maxAmount
          /\ scanCall.opportunities[i].profitPercent = scanCall.minProfitPercent

\* The two reservations executeTrade makes for the attempt's trade key.
reservationsOf(p) ==
    {r \in balanceReservations :
        /\ r.tradeKey = tradeKeyOf(opp[p])
        /\ \/ r.exchange = opp[p].buyExchange /\ r.currency = quoteCurrency(opp[p])
           \/ r.exchange = opp[p].sellExchange /\ r.currency = baseCurrency(opp[p])}

bothReservedLive(p) ==
    Cardinality({r \in reservationsOf(p) : ~r.stale}) = 2

\* C31: while executeTrade is between its reserveBalance calls and its end, both
\* reservations of its trade key are in balanceReservations and are counted by
\* getAvailableBalance.
C31_ReservationsHeldWhileExecuting ==
    \A p \in Tasks : pc[p] \in BuyStates \cup SellStates => bothReservedLive(p)

\* C31 as amended: executeTrade's reserveBalance calls leave both reservations
\* in place; until that executeTrade ends, a reservation younger than
\* reservationTimeout is neither removed nor left out of an available balance,
\* and only one that has grown older than reservationTimeout is evicted.
C31_ReservationsHeldUntilStale ==
    /\ [](\A v \in Venues, c \in Currencies :
            getAvailableBalance(balanceReservations, venueFree(v, c), v, c)
                = Max(0, venueFree(v, c) - LiveReserved(v, c)))
    /\ [][/\ \A p \in Tasks :
                (pc[p] = "reserve" /\ pc'[p] = "buy")
                    => Cardinality({r \in balanceReservations' :
                                       r.tradeKey = tradeKeyOf(opp[p]) /\ ~r.stale}) = 2
          /\ \A p \in Tasks :
                (pc[p] \in BuyStates \cup SellStates /\ pc'[p] \in BuyStates \cup SellStates)
                    => \A r \in reservationsOf(p) :
                          ~r.stale => \/ r \in balanceReservations'
                                      \/ [r EXCEPT !.stale = TRUE] \in balanceReservations']_vars

C31_Witness ==
    \E p, q \in Tasks :
        /\ pc[p] \in SellStates /\ bothReservedLive(p)
        /\ pc[q] = "reserve"


\* ============================================== venue connection and reconnection
\* One venue handle (ExchangeInstance), the watchOrderBook loops on it, the
\* reconnection timers and shutdown().
TimerIds == 1..MaxReconnectTimers

RECURSIVE Pow2(_)
Pow2(n) == IF n = 0 THEN 1 ELSE 2 * Pow2(n - 1)

\* calculateBackoffDelay(attemptCount)
calculateBackoffDelay(attemptCount) == Min(initialReconnectDelay * Pow2(attemptCount - 1), maxReconnectDelay)

\* The fields of the handle and of the manager that an error or a reconnection
\* changes, as one record.
connection == [errorCount |-> errorCount, status |-> status, reconnectTimeouts |-> reconnectTimeouts, reconnectAttempts |-> reconnectAttempts, timers |-> timers, sinceConnected |-> sinceConnected]

setConnection(c) ==
    /\ errorCount' = c.errorCount
    /\ status' = c.status
    /\ reconnectTimeouts' = c.reconnectTimeouts
    /\ reconnectAttempts' = c.reconnectAttempts
    /\ timers' = c.timers
    /\ sinceConnected' = c.sinceConnected

\* setTimeout returns a handle no live timer has.
freeTimerIds(c) == {i \in TimerIds : \A t \in c.timers : t.id # i}
newTimerId(c) == IF freeTimerIds(c) = {} THEN 0 ELSE CHOOSE i \in freeTimerIds(c) : TRUE

\* scheduleReconnect(instance), up to reconnectTimeouts.set: the callback is
\* ReconnectTimerFires and what follows it.
scheduleReconnect(c) ==
    LET currentAttempt == c.reconnectAttempts + 1
        delay == calculateBackoffDelay(currentAttempt)
        timeout == [id |-> newTimerId(c), state |-> "pending", delay |-> delay, k |-> c.sinceConnected + 1]
    IN  [c EXCEPT !.reconnectAttempts = currentAttempt,
                  !.timers = @ \cup {timeout},
                  !.reconnectTimeouts = timeout.id,
                  !.sinceConnected = @ + 1]

\* startReconnection(instance)
startReconnection_again(c) == scheduleReconnect([c EXCEPT !.status = "reconnecting"])
startReconnection(c) == IF c.reconnectTimeouts # 0 THEN c ELSE scheduleReconnect([c EXCEPT !.status = "reconnecting"])

\* handleExchangeError(instance, error, context)
handleExchangeError(c) ==
    LET counted == [c EXCEPT !.errorCount = @ + 1, !.status = "error"] IN
    IF counted.errorCount >= maxReconnectAttempts THEN startReconnection(counted) ELSE counted

\* The model follows the handle while the counters are within their bounds.
withinBounds(c) ==
    /\ c.errorCount <= MaxErrorCount
    /\ c.reconnectAttempts <= MaxReconnects
    /\ c.sinceConnected <= MaxReconnects
    /\ Cardinality(c.timers) <= MaxReconnectTimers

\* subscribeToOrderBook -> startWatchingOrderBook: the first watchOrderBook().
SubscribeToOrderBook(s) ==
    /\ shutdownpc = "running"
    /\ watchpc[s] = "none"
    /\ watchpc' = [watchpc EXCEPT ![s] = "watching"]
    /\ UNCHANGED <<errorCount, status, lastUpdate, reconnectTimeouts, reconnectAttempts, timers, shutdownpc, connNow, sinceConnected>>
    /\ UNCHANGED <<svars, gvars, lvars, rvars, nvars, bvars>>

\* watchOrderBook(): the venue's stream resolved with an order book whose
\* timestamp is ts (0: none); the loop goes round through setImmediate.
WatchDelivers(s, ts) ==
    /\ shutdownpc # "done"
    /\ watchpc[s] = "watching"
    /\ LET exchangeTimestamp == IF ts # 0 THEN ts ELSE connNow IN
       lastUpdate' = exchangeTimestamp
    /\ status' = "connected"
    /\ errorCount' = 0
    /\ UNCHANGED <<reconnectTimeouts, reconnectAttempts, timers, watchpc, shutdownpc, connNow, sinceConnected>>
    /\ UNCHANGED <<svars, gvars, lvars, rvars, nvars, bvars>>

\* watchOrderBook(): the stream rejected; the catch counts the error and sets
\* the retry timer only below the cap.
WatchThrows(s) ==
    /\ watchpc[s] = "watching"
    /\ LET c == handleExchangeError(connection) IN
       /\ withinBounds(c)
       /\ setConnection(c)
       /\ watchpc' = [watchpc EXCEPT ![s] = IF c.errorCount < maxReconnectAttempts THEN "retryTimer" ELSE "stopped"]
    /\ UNCHANGED <<lastUpdate, shutdownpc, connNow>>
    /\ UNCHANGED <<svars, gvars, lvars, rvars, nvars, bvars>>

\* setTimeout(() => watchOrderBook(), this.reconnectDelay) fires.
WatchRetryFires(s) ==
    /\ watchpc[s] = "retryTimer"
    /\ watchpc' = [watchpc EXCEPT ![s] = "watching"]
    /\ UNCHANGED <<errorCount, status, lastUpdate, reconnectTimeouts, reconnectAttempts, timers, shutdownpc, connNow, sinceConnected>>
    /\ UNCHANGED <<svars, gvars, lvars, rvars, nvars, bvars>>

\* getOrderBook, getTicker, getBalance or executeTrade caught an error of the
\* venue; after shutdown() they find no handle and count nothing.
RestCallThrows ==
    /\ shutdownpc # "done"
    /\ LET c == handleExchangeError(connection) IN
       /\ withinBounds(c)
       /\ setConnection(c)
    /\ UNCHANGED <<lastUpdate, watchpc, shutdownpc, connNow>>
    /\ UNCHANGED <<svars, gvars, lvars, rvars, nvars, bvars>>

\* The reconnection timer fires: its callback awaits loadMarkets(true).
ReconnectTimerFires(t) ==
    /\ t \in timers /\ t.state = "pending"
    /\ timers' = (timers \ {t}) \cup {[t EXCEPT !.state = "running"]}
    /\ UNCHANGED <<errorCount, status, lastUpdate, reconnectTimeouts, reconnectAttempts, watchpc, shutdownpc, connNow, sinceConnected>>
    /\ UNCHANGED <<svars, gvars, lvars, rvars, nvars, bvars>>

\* loadMarkets(true) resolved.
ReconnectSucceeds(t) ==
    /\ t \in timers /\ t.state = "running"
    /\ timers' = timers \ {t}
    /\ status' = "connected"
    /\ errorCount' = 0
    /\ lastUpdate' = connNow
    /\ reconnectTimeouts' = 0
    /\ reconnectAttempts' = 0
    /\ sinceConnected' = 0
    /\ UNCHANGED <<watchpc, shutdownpc, connNow>>
    /\ UNCHANGED <<svars, gvars, lvars, rvars, nvars, bvars>>

\* loadMarkets(true) rejected: the catch forgets the timer and schedules the
\* next attempt.
ReconnectFails(t) ==
    /\ t \in timers /\ t.state = "running"
    /\ LET c == scheduleReconnect([connection EXCEPT !.timers = @ \ {t}, !.reconnectTimeouts = 0]) IN
       /\ withinBounds(c)
       /\ setConnection(c)
    /\ UNCHANGED <<lastUpdate, watchpc, shutdownpc, connNow>>
    /\ UNCHANGED <<svars, gvars, lvars, rvars, nvars, bvars>>

\* shutdown(), up to the first await: clearTimeout on the timer the map holds
\* (without effect on a callback already running), then both maps are cleared.
ShutdownClears ==
    /\ shutdownpc = "running"
    /\ timers' = {t \in timers : ~(t.id = reconnectTimeouts /\ t.state = "pending")}
    /\ reconnectTimeouts' = 0
    /\ reconnectAttempts' = 0
    /\ shutdownpc' = "closing"
    /\ UNCHANGED <<errorCount, status, lastUpdate, watchpc, connNow, sinceConnected>>
    /\ UNCHANGED <<svars, gvars, lvars, rvars, nvars, bvars>>

\* shutdown(), after exchange.close(): the handle is disconnected unless close
\* threw, and shutdown() returns.
ShutdownCloses(threw) ==
    /\ shutdownpc = "closing"
    /\ status' = IF threw THEN status ELSE "disconnected"
    /\ shutdownpc' = "done"
    /\ UNCHANGED <<errorCount, lastUpdate, reconnectTimeouts, reconnectAttempts, timers, watchpc, connNow, sinceConnected>>
    /\ UNCHANGED <<svars, gvars, lvars, rvars, nvars, bvars>>

\* Date.now() moves on.
ConnectionClockTicks ==
    /\ connNow < MaxClock
    /\ connNow' = connNow + 1
    /\ UNCHANGED <<errorCount, status, lastUpdate, reconnectTimeouts, reconnectAttempts, timers, watchpc, shutdownpc, sinceConnected>>
    /\ UNCHANGED <<svars, gvars, lvars, rvars, nvars, bvars>>

\* The handle under errors, reconnection and shutdown; the venue's books carry
\* no timestamp and the clock stands still.
NextConnection ==
    \/ \E s \in WatchSymbols : SubscribeToOrderBook(s)
    \/ \E s \in WatchSymbols : WatchDelivers(s, 0)
    \/ \E s \in WatchSymbols : WatchThrows(s)
    \/ \E s \in WatchSymbols : WatchRetryFires(s)
    \/ RestCallThrows
    \/ \E t \in timers : ReconnectTimerFires(t)
    \/ \E t \in timers : ReconnectSucceeds(t)
    \/ \E t \in timers : ReconnectFails(t)
    \/ ShutdownClears
    \/ \E threw \in BOOLEAN : ShutdownCloses(threw)

\* One subscription's stream with the clock running and the venue's timestamps.
NextSnapshots ==
    \/ \E s \in WatchSymbols : SubscribeToOrderBook(s)
    \/ \E s \in WatchSymbols, ts \in 0..MaxClock : WatchDelivers(s, ts)
    \/ \E s \in WatchSymbols : WatchThrows(s)
    \/ \E s \in WatchSymbols : WatchRetryFires(s)
    \/ \E t \in timers : ReconnectTimerFires(t)
    \/ \E t \in timers : ReconnectSucceeds(t)
    \/ RestCallThrows
    \/ ConnectionClockTicks

InitConnectionAlone == InitOthers /\ InitCalls

SpecConnection == InitConnectionAlone /\ [][NextConnection]_vars

SpecSnapshots == InitConnectionAlone /\ [][NextSnapshots]_vars


C33_BackoffSinceLastConnection ==
    /\ [](\A t \in timers : t.delay = Min(maxReconnectDelay, initialReconnectDelay * Pow2(t.k - 1)))
    /\ [][(status' = "connected" /\ \E t \in timers : t.state = "running" /\ timers' = timers \ {t}) => (errorCount' = 0 /\ reconnectAttempts' = 0)]_vars

\* ------------------------------------------------------------------ C39
\* C39: after shutdown() has completed no reconnection timer is pending and no
\* reconnection attempt is scheduled any more.
C39_NoTimerAfterShutdown ==
    /\ [](shutdownpc = "done" => \A t \in timers : t.state # "pending")
    /\ [][shutdownpc = "done" => \A t \in timers' : t.state = "pending" => t \in timers]_vars

\* ------------------------------------------------------------------ C40
\* C40: the venue has at most one reconnection timer or reconnection attempt
\* in flight at any time.
C40_OneReconnectionAtATime == Cardinality(timers) <= 1

\* ------------------------------------------------------------------ C35
\* C35: the handle's lastUpdate never decreases.
C35_LastUpdateNeverDecreases == [][lastUpdate' >= lastUpdate]_vars


\* ------------------------------------------------------------------ C34
\* One subscription's stream and the REST calls on a venue that is reachable
\* again in the end: no shutdown, timers fire, and a reconnection attempt that is repeated
\* succeeds eventually.
NextStream ==
    \/ \E s \in WatchSymbols : SubscribeToOrderBook(s)
    \/ \E s \in WatchSymbols : WatchDelivers(s, 0)
    \/ \E s \in WatchSymbols : WatchThrows(s)
    \/ \E s \in WatchSymbols : WatchRetryFires(s)
    \/ RestCallThrows
    \/ \E t \in timers : ReconnectTimerFires(t)
    \/ \E t \in timers : ReconnectSucceeds(t)
    \/ \E t \in timers : ReconnectFails(t)

SpecStreamFair ==
    /\ InitConnectionAlone /\ [][NextStream]_vars
    /\ \A s \in WatchSymbols : WF_vars(WatchRetryFires(s))
    /\ WF_vars(\E t \in timers : ReconnectTimerFires(t))
    /\ SF_vars(\E t \in timers : ReconnectSucceeds(t))

\* C34: after a stream error the loop of the subscription is continued, so
\* that it awaits the venue's next snapshot again.
C34_StreamResumes == \A s \in WatchSymbols : (watchpc[s] \in {"retryTimer", "stopped"}) ~> (watchpc[s] = "watching")


\* ------------------------------------------------------------------ C38
\* C38: while the strategy is stopped no step acquires a tradeKey lock (and so
\* starts no executeTrade, which is what submits orders), whether or not a scan
\* was in progress when stop() was called.
C38_NoLockAfterStop == [][~isRunning => activeTrades' \subseteq activeTrades]_vars

\* ------------------------------------------------------------------ C36
\* C36: executeTrade never releases its tradeKey lock and reservations on the
\* expiry of the order timeout while the createOrder call of its leg is still
\* pending in the gateway.
C36_NoSubmissionInFlightAtRelease == [][\A p \in Tasks : (pc[p] \in {"buy", "sell"} /\ pc'[p] = "idle") => lastEvent'.kind # "execTimedOut"]_vars

\* ------------------------------------------------------------------ C37
\* C37: when the timeout recovery of a request returns an order, the venue
\* holds an order that this same request created.
C37_RecoveredOrderIsOwn == [][\A c \in Callers : GwRecoveryFinds(c) => venueCreated[gwcid[c]] > 0]_vars

==========================================================================
